---- MODULE Spec2Model ----
(***************************************************************************)
(* Model of the knowledge-graph construction pipeline of                   *)
(* src/utils/graph.py (KnowledgeGraphGenerator) and src/utils/translator.py *)
(* (EnhancedKnowledgeGraphGenerator): coreference gender map, the primary  *)
(* (LLM graph transformer), secondary (spaCy) and tertiary (capitalised    *)
(* words) extractors and the exception-driven fallback between them.       *)
(*                                                                         *)
(* Python strings are sequences of one-character strings, so that lower(), *)
(* strip(), split(), isupper() and the substring test are computed.        *)
(***************************************************************************)
EXTENDS Integers, Sequences, FiniteSets, TLC

(* ---------------------------- bounds ---------------------------------- *)

\* number of create_graph_from_text calls served by one generator object
MaxRequests == 2

(* ------------------------- string primitives --------------------------- *)

UpperAlphabet ==
    <<"A", "B", "C", "D", "E", "F", "G", "H", "I", "J", "K", "L", "M",
      "N", "O", "P", "Q", "R", "S", "T", "U", "V", "W", "X", "Y", "Z">>

LowerAlphabet ==
    <<"a", "b", "c", "d", "e", "f", "g", "h", "i", "j", "k", "l", "m",
      "n", "o", "p", "q", "r", "s", "t", "u", "v", "w", "x", "y", "z">>

UpperChars == {UpperAlphabet[i] : i \in 1..26}

LowerChars == {LowerAlphabet[i] : i \in 1..26}

\* str.lower() on one character
LowerChar(c) ==
    IF c \in UpperChars
    THEN LowerAlphabet[CHOOSE i \in 1..26 : UpperAlphabet[i] = c]
    ELSE c

\* str.upper() on one character
UpperChar(c) ==
    IF c \in LowerChars
    THEN UpperAlphabet[CHOOSE i \in 1..26 : LowerAlphabet[i] = c]
    ELSE c

Lower(s) == [i \in 1..Len(s) |-> LowerChar(s[i])]

Upper(s) == [i \in 1..Len(s) |-> UpperChar(s[i])]

\* s[0].isupper(); the caller guards against the empty string
FirstIsUpper(s) == s[1] \in UpperChars

IsSpace(c) == c = " "

RECURSIVE LStrip(_)
LStrip(s) == IF s # <<>> /\ IsSpace(s[1]) THEN LStrip(Tail(s)) ELSE s

RECURSIVE RStrip(_)
RStrip(s) ==
    IF s # <<>> /\ IsSpace(s[Len(s)]) THEN RStrip(SubSeq(s, 1, Len(s) - 1)) ELSE s

\* str.strip()
Strip(s) == RStrip(LStrip(s))

\* a in b  (Python substring test)
IsSubstr(a, b) ==
    \E i \in 0..Len(b) : i + Len(a) <= Len(b) /\ SubSeq(b, i + 1, i + Len(a)) = a

RECURSIVE SplitFrom(_, _, _, _)
SplitFrom(s, i, cur, acc) ==
    IF i > Len(s)
    THEN IF cur = <<>> THEN acc ELSE Append(acc, cur)
    ELSE IF IsSpace(s[i])
         THEN SplitFrom(s, i + 1, <<>>, IF cur = <<>> THEN acc ELSE Append(acc, cur))
         ELSE SplitFrom(s, i + 1, Append(cur, s[i]), acc)

\* the bug of splitting on a single blank: runs of blanks yield empty tokens
RECURSIVE SplitOnBlankFrom(_, _, _, _)
SplitOnBlankFrom(s, i, cur, acc) ==
    IF i > Len(s)
    THEN Append(acc, cur)
    ELSE IF IsSpace(s[i])
         THEN SplitOnBlankFrom(s, i + 1, <<>>, Append(acc, cur))
         ELSE SplitOnBlankFrom(s, i + 1, Append(cur, s[i]), acc)

SplitOnBlank(s) == SplitOnBlankFrom(s, 1, <<>>, <<>>)

\* str.split() with no argument: split on runs of whitespace, no empty tokens
Split(s) == SplitFrom(s, 1, <<>>, <<>>)

(* --------------------------- vocabulary -------------------------------- *)

Male    == <<"m", "a", "l", "e">>
Female  == <<"f", "e", "m", "a", "l", "e">>
Unknown == <<"u", "n", "k", "n", "o", "w", "n">>

Genders == {Male, Female, Unknown}

male_pronouns   == {<<"h", "e">>, <<"h", "i", "m">>, <<"h", "i", "s">>}
female_pronouns == {<<"s", "h", "e">>, <<"h", "e", "r">>, <<"h", "e", "r", "s">>}

Sita   == <<"S", "i", "t", "a">>
Kiran  == <<"K", "i", "r", "a", "n">>
Delhi  == <<"D", "e", "l", "h", "i">>
Ghost  == <<"R", "a", "m">>

TPerson    == <<"P", "e", "r", "s", "o", "n">>
TLocation  == <<"L", "o", "c", "a", "t", "i", "o", "n">>
TEntity    == <<"E", "n", "t", "i", "t", "y">>
LPERSON    == <<"P", "E", "R", "S", "O", "N">>
LGPE       == <<"G", "P", "E">>
LDATE      == <<"D", "A", "T", "E">>
LORG       == <<"O", "R", "G">>
LNORP      == <<"N", "O", "R", "P">>
LFAC       == <<"F", "A", "C">>
person     == <<"p", "e", "r", "s", "o", "n">>
RELATED_TO == <<"R", "E", "L", "A", "T", "E", "D", "_", "T", "O">>
REL_       == <<"R", "E", "L", "_">>
GOES_TO    == <<"G", "O", "E", "S", "_", "T", "O">>
KNOWS      == <<"K", "N", "O", "W", "S">>

(* ------------------- networkx.DiGraph, as used here -------------------- *)

\* nodes in insertion order, each with the attributes set so far (has);
\* edges in insertion order, at most one per ordered pair
EmptyGraph == [nodes |-> <<>>, edges |-> <<>>]

NoAttr == <<>>

HasNode(G, id) == \E i \in 1..Len(G.nodes) : G.nodes[i].id = id

HasEdge(G, u, v) ==
    \E i \in 1..Len(G.edges) : G.edges[i].source = u /\ G.edges[i].target = v

\* a node list that keeps a second entry for an id it already holds
add_node_dup(G, id, has, type, gender) ==
    [G EXCEPT !.nodes =
        Append(@, [id |-> id, has |-> has, type |-> type, gender |-> gender])]

\* G.add_node(id, type=..., gender=...[, properties=...])
add_node(G, id, has, type, gender) ==
    IF HasNode(G, id)
    THEN [G EXCEPT !.nodes =
            [i \in 1..Len(@) |->
                IF @[i].id = id
                THEN [id |-> id, has |-> @[i].has \cup has,
                      type |-> type, gender |-> gender]
                ELSE @[i]]]
    ELSE [G EXCEPT !.nodes =
            Append(@, [id |-> id, has |-> has, type |-> type, gender |-> gender])]

\* the node that add_edge creates for an endpoint it has not seen
add_bare_node(G, id) ==
    IF HasNode(G, id) THEN G
    ELSE [G EXCEPT !.nodes =
            Append(@, [id |-> id, has |-> {}, type |-> NoAttr, gender |-> NoAttr])]

\* an edge store that does not create the endpoints
add_edge_no_endpoints(G, u, v, type) ==
    IF HasEdge(G, u, v)
    THEN [G EXCEPT !.edges =
            [i \in 1..Len(@) |->
                IF @[i].source = u /\ @[i].target = v
                THEN [source |-> u, target |-> v, type |-> type]
                ELSE @[i]]]
    ELSE [G EXCEPT !.edges = Append(@, [source |-> u, target |-> v, type |-> type])]

\* an edge store that keeps parallel edges
add_edge_multi(G, u, v, type) ==
    LET G2 == add_bare_node(add_bare_node(G, u), v) IN
    [G2 EXCEPT !.edges = Append(@, [source |-> u, target |-> v, type |-> type])]

\* G.add_edge(u, v, type=...)
add_edge(G, u, v, type) ==
    LET G2 == add_bare_node(add_bare_node(G, u), v) IN
    IF HasEdge(G2, u, v)
    THEN [G2 EXCEPT !.edges =
            [i \in 1..Len(@) |->
                IF @[i].source = u /\ @[i].target = v
                THEN [source |-> u, target |-> v, type |-> type]
                ELSE @[i]]]
    ELSE [G2 EXCEPT !.edges = Append(@, [source |-> u, target |-> v, type |-> type])]

RECURSIVE EdgesFrom(_, _)
EdgesFrom(G, i) ==
    IF i > Len(G.nodes) THEN <<>>
    ELSE SelectSeq(G.edges, LAMBDA e : e.source = G.nodes[i].id) \o EdgesFrom(G, i + 1)

\* G.edges(): by source node in node order, then in adjacency insertion order
EdgeView(G) == EdgesFrom(G, 1)

\* a return literal that copies the properties bag of a node along
GraphDictWithProperties(G) ==
    IF \E i \in 1..Len(G.nodes) : ~({"type", "gender"} \subseteq G.nodes[i].has)
    THEN [raised |-> TRUE, nodes |-> <<>>, relationships |-> <<>>]
    ELSE [raised |-> FALSE,
          nodes |-> [i \in 1..Len(G.nodes) |->
                        IF "properties" \in G.nodes[i].has
                        THEN [id |-> G.nodes[i].id, type |-> G.nodes[i].type,
                              gender |-> G.nodes[i].gender, properties |-> <<>>]
                        ELSE [id |-> G.nodes[i].id, type |-> G.nodes[i].type,
                              gender |-> G.nodes[i].gender]],
          relationships |-> EdgeView(G)]

\* a return literal that reads the attributes with a default
GraphDictLenient(G) ==
    [raised |-> FALSE,
     nodes |-> [i \in 1..Len(G.nodes) |->
                   [id |-> G.nodes[i].id, type |-> G.nodes[i].type,
                    gender |-> G.nodes[i].gender]],
     relationships |-> EdgeView(G)]

\* the {'nodes': [...], 'relationships': [...]} literal of the primary and
\* secondary tiers; G.nodes[n]['type'] raises KeyError on an attribute-less node
GraphDict(G) ==
    IF \E i \in 1..Len(G.nodes) : ~({"type", "gender"} \subseteq G.nodes[i].has)
    THEN [raised |-> TRUE, nodes |-> <<>>, relationships |-> <<>>]
    ELSE [raised |-> FALSE,
          nodes |-> [i \in 1..Len(G.nodes) |->
                        [id |-> G.nodes[i].id, type |-> G.nodes[i].type,
                         gender |-> G.nodes[i].gender]],
          relationships |-> EdgeView(G)]

(* -------------------------- gender inference --------------------------- *)

EmptyMap == [e \in {} |-> Male]

MapSet(gm, e, g) == [x \in DOMAIN gm \cup {e} |-> IF x = e THEN g ELSE gm[x]]

\* {word.lower() for word in cluster}
cluster_pronouns(cluster) == {Lower(cluster[i]) : i \in 1..Len(cluster)}

\* the inner loop without the entity[0].isupper() test
RECURSIVE AssignClusterAnyCase(_, _, _, _)
AssignClusterAnyCase(cluster, i, gender, gm) ==
    IF i > Len(cluster) THEN [raised |-> FALSE, gender_map |-> gm]
    ELSE LET entity == cluster[i] IN
         IF Lower(entity) \notin male_pronouns /\ Lower(entity) \notin female_pronouns
         THEN IF entity = <<>>
              THEN [raised |-> TRUE, gender_map |-> gm]
              ELSE AssignClusterAnyCase(cluster, i + 1, gender, MapSet(gm, entity, gender))
         ELSE AssignClusterAnyCase(cluster, i + 1, gender, gm)

\* the inner loop with a handler that starts the map afresh
RECURSIVE AssignClusterForgets(_, _, _, _)
AssignClusterForgets(cluster, i, gender, gm) ==
    IF i > Len(cluster) THEN [raised |-> FALSE, gender_map |-> gm]
    ELSE LET entity == cluster[i] IN
         IF Lower(entity) \notin male_pronouns /\ Lower(entity) \notin female_pronouns
         THEN IF entity = <<>>
              THEN [raised |-> TRUE, gender_map |-> EmptyMap]
              ELSE IF FirstIsUpper(entity)
                   THEN AssignClusterForgets(cluster, i + 1, gender,
                                             MapSet(gm, entity, gender))
                   ELSE AssignClusterForgets(cluster, i + 1, gender, gm)
         ELSE AssignClusterForgets(cluster, i + 1, gender, gm)

\* the inner loop "for entity in cluster"; entity[0] of an empty mention
\* raises IndexError, which leaves the map as built so far
RECURSIVE AssignCluster(_, _, _, _)
AssignCluster(cluster, i, gender, gm) ==
    IF i > Len(cluster) THEN [raised |-> FALSE, gender_map |-> gm]
    ELSE LET entity == cluster[i] IN
         IF Lower(entity) \notin male_pronouns /\ Lower(entity) \notin female_pronouns
         THEN IF entity = <<>>
              THEN [raised |-> TRUE, gender_map |-> gm]
              ELSE IF FirstIsUpper(entity)
                   THEN AssignCluster(cluster, i + 1, gender, MapSet(gm, entity, gender))
                   ELSE AssignCluster(cluster, i + 1, gender, gm)
         ELSE AssignCluster(cluster, i + 1, gender, gm)

\* the loop "for cluster in clusters"
RECURSIVE ProcessClusters(_, _, _)
ProcessClusters(clusters, k, gm) ==
    IF k > Len(clusters) THEN gm
    ELSE LET cluster    == clusters[k]
             has_male   == cluster_pronouns(cluster) \cap male_pronouns # {}
             has_female == cluster_pronouns(cluster) \cap female_pronouns # {}
         IN  IF has_male /\ ~has_female
             THEN LET r == AssignCluster(cluster, 1, Male, gm) IN
                  IF r.raised THEN r.gender_map
                  ELSE ProcessClusters(clusters, k + 1, r.gender_map)
             ELSE IF has_female /\ ~has_male
             THEN LET r == AssignCluster(cluster, 1, Female, gm) IN
                  IF r.raised THEN r.gender_map
                  ELSE ProcessClusters(clusters, k + 1, r.gender_map)
             ELSE ProcessClusters(clusters, k + 1, gm)

\* identify_genders_coref without its try/except: an engine failure escapes
identify_genders_coref_uncaught(engine) ==
    IF engine.kind = "clusters"
    THEN [raised |-> FALSE, gender_map |-> ProcessClusters(engine.clusters, 1, EmptyMap)]
    ELSE [raised |-> TRUE, gender_map |-> EmptyMap]

\* identify_genders_coref with _load_coref_model called before the try block
identify_genders_coref_load_outside(engine) ==
    IF engine.kind = "clusters"
    THEN [raised |-> FALSE, gender_map |-> ProcessClusters(engine.clusters, 1, EmptyMap)]
    ELSE [raised |-> engine.kind = "load_raises", gender_map |-> EmptyMap]

\* identify_genders_coref, given what the coreference engine does:
\* engine.kind is "load_raises", "predict_raises", "get_clusters_raises" or
\* "clusters"; every exception is caught and the map built so far returned
identify_genders_coref(engine) ==
    IF engine.kind = "clusters"
    THEN [raised |-> FALSE, gender_map |-> ProcessClusters(engine.clusters, 1, EmptyMap)]
    ELSE [raised |-> FALSE, gender_map |-> EmptyMap]

\* identify_gender_llm asking the completion service before it looks at the map
identify_gender_llm_llm_first(entity, entity_type, gm, llm) ==
    IF Lower(entity_type) # person
    THEN [gender |-> IF entity \in DOMAIN gm THEN gm[entity] ELSE Unknown,
          called |-> FALSE, raised |-> FALSE]
    ELSE IF llm.raises
    THEN [gender |-> Unknown, called |-> TRUE, raised |-> FALSE]
    ELSE LET gender == Strip(Lower(llm.response)) IN
         [gender |-> IF gender \notin {Male, Female, Unknown} THEN Unknown ELSE gender,
          called |-> TRUE, raised |-> FALSE]

\* identify_gender_llm without the entity_type test
identify_gender_llm_any_type(entity, entity_type, gm, llm) ==
    IF entity \in DOMAIN gm
    THEN [gender |-> gm[entity], called |-> FALSE, raised |-> FALSE]
    ELSE IF llm.raises
    THEN [gender |-> Unknown, called |-> TRUE, raised |-> FALSE]
    ELSE LET gender == Strip(Lower(llm.response)) IN
         [gender |-> IF gender \notin {Male, Female, Unknown} THEN Unknown ELSE gender,
          called |-> TRUE, raised |-> FALSE]

\* identify_gender_llm returning the response unvalidated
identify_gender_llm_raw(entity, entity_type, gm, llm) ==
    IF entity \in DOMAIN gm
    THEN [gender |-> gm[entity], called |-> FALSE, raised |-> FALSE]
    ELSE IF Lower(entity_type) # person
    THEN [gender |-> Unknown, called |-> FALSE, raised |-> FALSE]
    ELSE IF llm.raises
    THEN [gender |-> Unknown, called |-> TRUE, raised |-> FALSE]
    ELSE [gender |-> Strip(Lower(llm.response)), called |-> TRUE, raised |-> FALSE]

\* identify_gender_llm comparing the stripped response without lower-casing it
identify_gender_llm_no_lower(entity, entity_type, gm, llm) ==
    IF entity \in DOMAIN gm
    THEN [gender |-> gm[entity], called |-> FALSE, raised |-> FALSE]
    ELSE IF Lower(entity_type) # person
    THEN [gender |-> Unknown, called |-> FALSE, raised |-> FALSE]
    ELSE IF llm.raises
    THEN [gender |-> Unknown, called |-> TRUE, raised |-> FALSE]
    ELSE LET gender == Strip(llm.response) IN
         [gender |-> IF gender \notin {Male, Female, Unknown} THEN Unknown ELSE gender,
          called |-> TRUE, raised |-> FALSE]

\* identify_gender_llm comparing the lower-cased response without stripping it
identify_gender_llm_no_strip(entity, entity_type, gm, llm) ==
    IF entity \in DOMAIN gm
    THEN [gender |-> gm[entity], called |-> FALSE, raised |-> FALSE]
    ELSE IF Lower(entity_type) # person
    THEN [gender |-> Unknown, called |-> FALSE, raised |-> FALSE]
    ELSE IF llm.raises
    THEN [gender |-> Unknown, called |-> TRUE, raised |-> FALSE]
    ELSE LET gender == Lower(llm.response) IN
         [gender |-> IF gender \notin {Male, Female, Unknown} THEN Unknown ELSE gender,
          called |-> TRUE, raised |-> FALSE]

\* identify_gender_llm without its try/except: a failed request escapes
identify_gender_llm_uncaught(entity, entity_type, gm, llm) ==
    IF entity \in DOMAIN gm
    THEN [gender |-> gm[entity], called |-> FALSE, raised |-> FALSE]
    ELSE IF Lower(entity_type) # person
    THEN [gender |-> Unknown, called |-> FALSE, raised |-> FALSE]
    ELSE IF llm.raises
    THEN [gender |-> Unknown, called |-> TRUE, raised |-> TRUE]
    ELSE LET gender == Strip(Lower(llm.response)) IN
         [gender |-> IF gender \notin {Male, Female, Unknown} THEN Unknown ELSE gender,
          called |-> TRUE, raised |-> FALSE]

\* identify_gender_llm(entity, entity_type, gender_map), given what the
\* completion service does when asked: the gender returned and whether the
\* service was called
identify_gender_llm(entity, entity_type, gm, llm) ==
    IF entity \in DOMAIN gm
    THEN [gender |-> gm[entity], called |-> FALSE, raised |-> FALSE]
    ELSE IF Lower(entity_type) # person
    THEN [gender |-> Unknown, called |-> FALSE, raised |-> FALSE]
    ELSE IF llm.raises
    THEN [gender |-> Unknown, called |-> TRUE, raised |-> FALSE]
    ELSE LET gender == Strip(Lower(llm.response)) IN
         [gender |-> IF gender \notin {Male, Female, Unknown} THEN Unknown ELSE gender,
          called |-> TRUE, raised |-> FALSE]

(* ------------------- secondary tier (spaCy), pure parts ---------------- *)

KeptLabels == {LPERSON, LORG, LGPE, LNORP, LFAC}

\* the entities set after the first pass over doc.ents
EntitySet(doc) ==
    {Strip(doc.ents[i].text) :
        i \in {j \in 1..Len(doc.ents) : doc.ents[j].label \in KeptLabels}}

\* entity_mentions[entity][0]['label']
FirstLabel(doc, entity) ==
    LET hits == {j \in 1..Len(doc.ents) :
                    doc.ents[j].label \in KeptLabels /\ Strip(doc.ents[j].text) = entity}
    IN  doc.ents[CHOOSE j \in hits : \A k \in hits : j <= k].label

\* the orders in which a Python set of these entities can be iterated
Orders(S) ==
    {o \in [1..Cardinality(S) -> S] :
        \A i, j \in 1..Cardinality(S) : i # j => o[i] # o[j]}

Overlaps(a, b) == IsSubstr(a, b) \/ IsSubstr(b, a)

NoEntity == [found |-> FALSE, ent |-> <<>>]

\* "for ent in entities: if dep in ent or ent in dep: ...; break"
FirstOverlap(word, entities) ==
    LET hits == {i \in 1..Len(entities) : Overlaps(word, entities[i])} IN
    IF hits = {} THEN NoEntity
    ELSE [found |-> TRUE, ent |-> entities[CHOOSE i \in hits : \A k \in hits : i <= k]]

\* the loop "for token2 in sent" that looks for the subject of the same head;
\* the break leaves only the inner loop, so a later subject replaces an earlier
RECURSIVE SourceOf(_, _, _, _, _)
SourceOf(sent, head, entities, j, cur) ==
    IF j > Len(sent) THEN cur
    ELSE LET token2 == sent[j]
             hit    == FirstOverlap(token2.text, entities)
         IN  IF token2.dep = "nsubj" /\ token2.head = head /\ hit.found
             THEN SourceOf(sent, head, entities, j + 1, hit)
             ELSE SourceOf(sent, head, entities, j + 1, cur)

\* Python truthiness of source_entity / target_entity
Truthy(x) == x.found /\ x.ent # <<>>

\* the token loop without the "source_entity != target_entity" test
RECURSIVE SentEdgesWithLoops(_, _, _, _)
SentEdgesWithLoops(G, sent, entities, i) ==
    IF i > Len(sent) THEN G
    ELSE LET token == sent[i] IN
         IF token.dep \in {"nsubj", "nsubjpass", "dobj", "pobj"}
         THEN LET target_entity == FirstOverlap(token.text, entities)
                  source_entity == SourceOf(sent, token.head, entities, 1, NoEntity)
              IN  IF Truthy(source_entity) /\ Truthy(target_entity)
                  THEN SentEdgesWithLoops(add_edge(G, source_entity.ent, target_entity.ent,
                                                   REL_ \o Upper(sent[token.head].text)),
                                          sent, entities, i + 1)
                  ELSE SentEdgesWithLoops(G, sent, entities, i + 1)
         ELSE SentEdgesWithLoops(G, sent, entities, i + 1)

\* the loop "for token in sent"
RECURSIVE SentEdges(_, _, _, _)
SentEdges(G, sent, entities, i) ==
    IF i > Len(sent) THEN G
    ELSE LET token == sent[i] IN
         IF token.dep \in {"nsubj", "nsubjpass", "dobj", "pobj"}
         THEN LET target_entity == FirstOverlap(token.text, entities)
                  source_entity == SourceOf(sent, token.head, entities, 1, NoEntity)
              IN  IF Truthy(source_entity) /\ Truthy(target_entity)
                     /\ source_entity.ent # target_entity.ent
                  THEN SentEdges(add_edge(G, source_entity.ent, target_entity.ent,
                                          REL_ \o Upper(sent[token.head].text)),
                                 sent, entities, i + 1)
                  ELSE SentEdges(G, sent, entities, i + 1)
         ELSE SentEdges(G, sent, entities, i + 1)

\* the loop "for sent in doc.sents"
RECURSIVE DependencyEdges(_, _, _, _)
DependencyEdges(G, sents, entities, k) ==
    IF k > Len(sents) THEN G
    ELSE DependencyEdges(SentEdges(G, sents[k], entities, 1), sents, entities, k + 1)

\* the chain loop without the has_edge test
RECURSIVE ChainEntitiesOverwrite(_, _, _)
ChainEntitiesOverwrite(G, entity_list, i) ==
    IF i > Len(entity_list) - 1 THEN G
    ELSE ChainEntitiesOverwrite(add_edge(G, entity_list[i], entity_list[i + 1], RELATED_TO),
                                entity_list, i + 1)

\* "for i in range(len(entity_list) - 1): ... if not G.has_edge(source, target)"
RECURSIVE ChainEntities(_, _, _)
ChainEntities(G, entity_list, i) ==
    IF i > Len(entity_list) - 1 THEN G
    ELSE LET source == entity_list[i]
             target == entity_list[i + 1]
         IN  IF ~HasEdge(G, source, target)
             THEN ChainEntities(add_edge(G, source, target, RELATED_TO), entity_list, i + 1)
             ELSE ChainEntities(G, entity_list, i + 1)

\* "if len(G.edges()) < len(entities) - 1: ..."
Backstop(G, entities) ==
    IF Len(G.edges) < Len(entities) - 1 THEN ChainEntities(G, entities, 1) ELSE G

(* ------------------------- tertiary tier ------------------------------- *)

RECURSIVE AddWords(_, _, _, _)
AddWords(G, words, gm, i) ==
    IF i > Len(words) THEN G
    ELSE AddWords(add_node(G, words[i], {"type", "gender"}, TEntity,
                           IF words[i] \in DOMAIN gm THEN gm[words[i]] ELSE Unknown),
                  words, gm, i + 1)

\* the chain loop skipping a pair of equal words
RECURSIVE ChainWordsNoLoops(_, _, _)
ChainWordsNoLoops(G, words, i) ==
    IF i > Len(words) - 1 THEN G
    ELSE IF words[i] = words[i + 1] THEN ChainWordsNoLoops(G, words, i + 1)
    ELSE ChainWordsNoLoops(add_edge(G, words[i], words[i + 1], RELATED_TO), words, i + 1)

\* "for i in range(len(words) - 1): G.add_edge(words[i], words[i + 1], ...)"
RECURSIVE ChainWords(_, _, _)
ChainWords(G, words, i) ==
    IF i > Len(words) - 1 THEN G
    ELSE ChainWords(add_edge(G, words[i], words[i + 1], RELATED_TO), words, i + 1)

\* the word list without the w[0].isupper() filter
TertiaryWordsAll(tokens) == tokens

\* "[w for w in text.split() if w[0].isupper()]", given the tokens
TertiaryWords(tokens) == SelectSeq(tokens, FirstIsUpper)

\* the except branch of _create_basic_graph: w[0] of an empty token would
\* raise IndexError out of the handler
basic_graph_tertiary(txt, gm) ==
    LET tokens == Split(txt) IN
    IF \E i \in 1..Len(tokens) : tokens[i] = <<>>
    THEN [raised |-> TRUE, nodes |-> <<>>, relationships |-> <<>>]
    ELSE LET words == TertiaryWords(tokens)
             G     == ChainWords(AddWords(EmptyGraph, words, gm, 1), words, 1)
         IN  [raised |-> FALSE,
              nodes |-> [i \in 1..Len(G.nodes) |->
                            [id |-> G.nodes[i].id, type |-> TEntity,
                             gender |-> G.nodes[i].gender]],
              relationships |-> EdgeView(G)]

(* ------------------------------ inputs --------------------------------- *)

SP == <<" ">>

met == <<"m", "e", "t">>
he  == <<"h", "e">>
He  == <<"H", "e">>
his == <<"h", "i", "s">>
she == <<"s", "h", "e">>
ran == <<"r", "a", "n">>

\* the texts a request is made with
Texts ==
    { <<>>,
      SP \o SP,
      Kiran \o SP \o met \o SP \o Sita,
      Sita \o SP \o SP \o Sita \o SP \o Sita,
      he \o SP \o ran }

\* what preds[0].get_clusters() can hold
ClusterLists ==
    { <<>>,
      << <<Sita, his, he>> >>,
      << <<Sita, he, she>> >>,
      << <<Kiran, He>>, <<Sita, she>> >>,
      << <<Sita, she>>, <<<<>>, Kiran, he>> >>,
      << <<Kiran, <<>>, he>> >>,
      << <<Sita, he>>, <<Sita, she>> >>,
      << <<ran, he>> >> }

\* what the coreference engine does in one identify_genders_coref call
CorefEngine(loaded) ==
    {[kind |-> k, clusters |-> <<>>] :
        k \in {"predict_raises", "get_clusters_raises"}
               \cup (IF loaded THEN {} ELSE {"load_raises"})}
    \cup {[kind |-> "clusters", clusters |-> c] : c \in ClusterLists}

Node(id, type) == [ok |-> TRUE, id |-> id, type |-> type]

BadNode == [ok |-> FALSE, id |-> <<>>, type |-> <<>>]

Rel(u, v, type) == [ok |-> TRUE, source |-> u, target |-> v, type |-> type]

BadRel == [ok |-> FALSE, source |-> <<>>, target |-> <<>>, type |-> <<>>]

\* what convert_to_graph_documents can do: raise, return [], return a first
\* document without .nodes or without .relationships, or a document
GraphDocuments ==
    {[kind |-> k, nodes |-> <<>>, rels |-> <<>>] :
        k \in {"raises", "empty", "no_nodes_attr"}}
    \cup
    {[kind |-> "no_rels_attr", nodes |-> <<Node(Kiran, TPerson)>>, rels |-> <<>>]}
    \cup
    {[kind |-> "doc", nodes |-> d[1], rels |-> d[2]] : d \in
        { << <<>>, <<>> >>,
          << <<Node(Kiran, TPerson), Node(Sita, TPerson)>>, <<Rel(Kiran, Sita, KNOWS)>> >>,
          << <<Node(Sita, TPerson), Node(Delhi, TLocation), Node(Sita, TPerson)>>,
             <<Rel(Sita, Delhi, KNOWS), Rel(Sita, Delhi, GOES_TO), Rel(Sita, Sita, KNOWS)>> >>,
          << <<Node(Kiran, TPerson)>>, <<Rel(Kiran, Ghost, KNOWS)>> >>,
          << <<Node(Kiran, TPerson), BadNode>>, <<>> >>,
          << <<Node(Delhi, TLocation)>>, <<BadRel>> >> }}

\* what self.llm.predict can answer
ItsComplicated ==
    <<"i", "t", "'", "s", " ", "c", "o", "m", "p", "l", "i", "c", "a", "t", "e", "d">>

Responses ==
    { Male,
      Female,
      Unknown,
      <<"M", "A", "L", "E">>,
      SP \o Female \o SP,
      <<"M", "a", "l", "e", "!">>,
      ItsComplicated }

LlmOutcomes ==
    {[raises |-> TRUE, response |-> <<>>]}
    \cup {[raises |-> FALSE, response |-> r] : r \in Responses}

Ent(t, l) == [text |-> t, label |-> l]

Tok(t, d, h) == [text |-> t, dep |-> d, head |-> h]

\* the documents nlp(text) can return: entities and, per sentence, tokens
\* with their dependency role and the index of their head in the sentence
SpacyDocs ==
    { [ents |-> <<>>, sents |-> <<>>],
      [ents  |-> <<Ent(Kiran, LPERSON), Ent(Sita, LPERSON)>>,
       sents |-> << <<Tok(Kiran, "nsubj", 2), Tok(met, "ROOT", 2), Tok(Sita, "dobj", 2)>> >>],
      [ents  |-> <<Ent(SP \o Sita, LORG), Ent(Sita, LPERSON), Ent(met, LDATE)>>,
       sents |-> << <<Tok(Sita, "nsubj", 2), Tok(ran, "ROOT", 2)>> >>],
      [ents  |-> <<Ent(Kiran, LPERSON), Ent(Sita, LORG), Ent(Delhi, LGPE)>>,
       sents |-> << <<Tok(Kiran, "nsubj", 2), Tok(met, "ROOT", 2), Tok(Sita, "dobj", 2)>>,
                    <<Tok(Delhi, "ROOT", 1)>> >>],
      [ents  |-> <<Ent(Kiran, LORG), Ent(Sita, LORG), Ent(Delhi, LGPE)>>,
       sents |-> << <<Tok(Kiran, "nsubj", 2), Tok(met, "ROOT", 2), Tok(Sita, "dobj", 2)>>,
                    <<Tok(Sita, "nsubj", 2), Tok(met, "ROOT", 2), Tok(Kiran, "dobj", 2)>> >>] }

\* what the syntactic engine does in one _create_basic_graph call: whether
\* loading the model raises (when it has to be loaded) and what nlp(text) does
SpacyEngine ==
    {[load_raises |-> l, kind |-> k, doc |-> [ents |-> <<>>, sents |-> <<>>]] :
        l \in BOOLEAN, k \in {"raises", "malformed"}}
    \cup {[load_raises |-> l, kind |-> "doc", doc |-> d] : l \in BOOLEAN, d \in SpacyDocs}

(* ------------------------------- state --------------------------------- *)

VARIABLES
    cls,             \* which generator class the object is
    coref_model,     \* self.coref_model: "None" or "loaded"
    nlp,             \* self.nlp: "None" or "loaded"
    requests,        \* create_graph_from_text calls made on the object
    pc,              \* position of the running call
    text,            \* argument of create_graph_from_text
    gender_map,      \* local of create_graph_from_text
    bound,           \* whether that local has been assigned
    graph_documents, \* local of create_graph_from_text
    G,               \* the working DiGraph of the running tier
    idx,             \* position of the running node loop
    inTry,           \* _create_basic_graph was called from inside the try block
    bg_text,         \* parameter text of _create_basic_graph
    bg_gender_map,   \* parameter gender_map of _create_basic_graph
    doc,             \* local of _create_basic_graph
    entities,        \* local of _create_basic_graph, in its iteration order
    outcome,         \* "none", "returned" or "raised": what the caller got
    result,          \* the returned graph
    tiers,           \* history: tiers attempted by the running call, with arguments
    corefMap,        \* history: what identify_genders_coref returned
    corefEngine,     \* history: what the coreference engine did in the running call
    corefCalls,      \* history: identify_genders_coref calls of the running call
    predictCalls,    \* history: coref_model.predict calls of the running call
    genderCall,      \* history: the latest identify_gender_llm call of the running call
    llmCalls,        \* history: completion requests made by the running call
    failed,          \* history: tiers of the running call that ended in an exception
    producer,        \* history: the tier that built result
    translation,     \* history: the translate_text call that followed the running call
    sample_text,     \* argument of generate_translation_prompt
    knowledge_graph, \* argument of generate_translation_prompt
    target_lang,     \* argument of generate_translation_prompt
    prompt,          \* what generate_translation_prompt returned
    inputs,          \* one request replayed: its text and the answers of the services
    runs,            \* one request replayed: what create_graph_from_text did with inputs
    loads            \* history: how often FCoref() and spacy.load built a model

object  == <<cls, coref_model, nlp, requests, loads>>
locals  == <<text, gender_map, bound, graph_documents, G, idx, inTry,
             bg_text, bg_gender_map, doc, entities>>
history == <<tiers, corefMap, corefEngine, corefCalls, predictCalls, genderCall, llmCalls, failed,
             producer>>
page    == <<sample_text, knowledge_graph, target_lang, prompt>>
replay  == <<inputs, runs>>
vars    == <<object, pc, locals, outcome, result, history, translation, page, replay>>

NoDocuments == [kind |-> "none", nodes |-> <<>>, rels |-> <<>>]
NoDoc       == [ents |-> <<>>, sents |-> <<>>]
NoResult    == [nodes |-> <<>>, relationships |-> <<>>]
NoEngine    == [kind |-> "none", clusters |-> <<>>]
NoPrompt    == [raised |-> FALSE, role |-> "none", content |-> <<>>]
NoInputs    == <<>>
NoRuns      == <<>>
NoTranslation == [completion |-> "none", requests |-> 0, outcome |-> "none"]
NoCall      == [tier |-> "none", entity |-> <<>>, type |-> <<>>, gender |-> <<>>,
                called |-> FALSE, raises |-> FALSE, response |-> <<>>]

Classes == {"KnowledgeGraphGenerator", "EnhancedKnowledgeGraphGenerator"}

\* the locals and the history before any call is made
Idle ==
    /\ pc = "idle"
    /\ text = <<>>
    /\ gender_map = EmptyMap
    /\ bound = FALSE
    /\ graph_documents = NoDocuments
    /\ G = EmptyGraph
    /\ idx = 0
    /\ inTry = FALSE
    /\ bg_text = <<>>
    /\ bg_gender_map = EmptyMap
    /\ doc = NoDoc
    /\ entities = <<>>
    /\ outcome = "none"
    /\ result = NoResult
    /\ tiers = <<>>
    /\ corefMap = EmptyMap
    /\ corefEngine = NoEngine
    /\ translation = NoTranslation
    /\ corefCalls = 0
    /\ predictCalls = 0
    /\ genderCall = NoCall
    /\ llmCalls = 0
    /\ failed = {}
    /\ producer = "none"

\* __init__: KnowledgeGraphGenerator loads both engines lazily;
\* EnhancedKnowledgeGraphGenerator loads FCoref and tries to load spaCy
Constructed ==
    /\ cls \in Classes
    /\ coref_model = IF cls = "KnowledgeGraphGenerator" THEN "None" ELSE "loaded"
    /\ nlp \in IF cls = "KnowledgeGraphGenerator" THEN {"None"} ELSE {"None", "loaded"}
    /\ requests = 0
    /\ loads = [coref_model |-> IF coref_model = "loaded" THEN 1 ELSE 0,
                nlp         |-> IF nlp = "loaded" THEN 1 ELSE 0]

Init ==
    /\ Constructed
    /\ Idle
    /\ sample_text = <<>>
    /\ knowledge_graph = NoResult
    /\ target_lang = <<>>
    /\ prompt = NoPrompt
    /\ inputs = NoInputs
    /\ runs = NoRuns

Attempt(tier, t, gm) == [tier |-> tier, text |-> t, gender_map |-> gm]

\* a caller invokes create_graph_from_text(t) on the object
Request ==
    /\ pc \in {"idle", "done"}
    /\ requests < MaxRequests
    /\ \E t \in Texts : text' = t
    /\ requests' = requests + 1
    /\ pc' = "coref"
    /\ gender_map' = EmptyMap
    /\ bound' = FALSE
    /\ graph_documents' = NoDocuments
    /\ G' = EmptyGraph
    /\ idx' = 0
    /\ inTry' = FALSE
    /\ bg_text' = <<>>
    /\ bg_gender_map' = EmptyMap
    /\ doc' = NoDoc
    /\ entities' = <<>>
    /\ outcome' = "none"
    /\ result' = NoResult
    /\ tiers' = <<>>
    /\ corefMap' = EmptyMap
    /\ corefEngine' = NoEngine
    /\ translation' = NoTranslation
    /\ corefCalls' = 0
    /\ predictCalls' = 0
    /\ genderCall' = NoCall
    /\ llmCalls' = 0
    /\ failed' = {}
    /\ producer' = "none"
    /\ UNCHANGED <<cls, coref_model, nlp, loads, page, replay>>

\* predict called again after it raised
PredictCallsRetried(engine) ==
    IF engine.kind = "load_raises" THEN 0
    ELSE IF engine.kind = "predict_raises" THEN 2 ELSE 1

\* how often identify_genders_coref reaches coref_model.predict: not at all
\* when _load_coref_model raises, once otherwise
PredictCalls(engine) == IF engine.kind = "load_raises" THEN 0 ELSE 1

\* a _load_coref_model that builds a new model on every call
FCorefConstructedEveryCall(handle, engine) ==
    IF engine.kind # "load_raises" THEN 1 ELSE 0

\* _load_coref_model: FCoref() is called when the handle is None, and the
\* call counts when it does not raise
FCorefConstructed(handle, engine) ==
    IF handle = "None" /\ engine.kind # "load_raises" THEN 1 ELSE 0

\* gender_map = self.identify_genders_coref(text)
IdentifyGendersCoref ==
    /\ UNCHANGED <<translation, page, replay>>
    /\ pc = "coref"
    /\ \E engine \in CorefEngine(coref_model = "loaded") :
         LET r == identify_genders_coref(engine) IN
         /\ coref_model' = IF engine.kind = "load_raises" THEN "None" ELSE "loaded"
         /\ loads' = [loads EXCEPT
                        !.coref_model = @ + FCorefConstructed(coref_model, engine)]
         /\ corefCalls' = corefCalls + 1
         /\ corefEngine' = engine
         /\ predictCalls' = predictCalls + PredictCalls(engine)
         /\ IF r.raised
            THEN /\ pc' = "except"
                 /\ UNCHANGED <<gender_map, bound, corefMap>>
            ELSE /\ pc' = "convert"
                 /\ gender_map' = r.gender_map
                 /\ bound' = TRUE
                 /\ corefMap' = r.gender_map
    /\ UNCHANGED <<cls, nlp, requests, text, graph_documents, G, idx, inTry, bg_text,
                   bg_gender_map, doc, entities, outcome, result, tiers, genderCall, llmCalls,
                   failed, producer>>

\* the arguments "return self._create_basic_graph(text, gender_map)" passes
\* when the handler recomputes nothing but forgets the map
CallArgsNoMap(t, gm) == [text |-> t, gender_map |-> EmptyMap]

\* the arguments of "return self._create_basic_graph(text, gender_map)"
CallArgs(t, gm) == [text |-> t, gender_map |-> gm]

\* the test without its hasattr half
NothingUsableNoAttrTest(gd) == gd.kind = "empty"

\* "not graph_documents or not hasattr(graph_documents[0], 'nodes')"
NothingUsable(gd) == gd.kind \in {"empty", "no_nodes_attr"}

\* graph_documents = self.graph_transformer.convert_to_graph_documents(...)
\* and the test that follows it
ConvertToGraphDocuments ==
    /\ UNCHANGED <<translation, page, replay>>
    /\ pc = "convert"
    /\ \E gd \in GraphDocuments :
         /\ graph_documents' = gd
         /\ IF gd.kind = "raises"
            THEN /\ pc' = "except"
                 /\ failed' = failed \cup {"primary"}
                 /\ tiers' = Append(tiers, Attempt("primary", text, gender_map))
                 /\ UNCHANGED <<G, idx, inTry, bg_text, bg_gender_map>>
            ELSE IF NothingUsable(gd)
            THEN /\ pc' = "basic"
                 /\ inTry' = TRUE
                 /\ bg_text' = CallArgs(text, gender_map).text
                 /\ bg_gender_map' = CallArgs(text, gender_map).gender_map
                 /\ tiers' = tiers \o <<Attempt("primary", text, gender_map),
                                        Attempt("secondary", CallArgs(text, gender_map).text,
                                                CallArgs(text, gender_map).gender_map)>>
                 /\ UNCHANGED <<G, idx, failed>>
            ELSE /\ pc' = "prim_nodes"
                 /\ G' = EmptyGraph
                 /\ idx' = 1
                 /\ tiers' = Append(tiers, Attempt("primary", text, gender_map))
                 /\ UNCHANGED <<inTry, bg_text, bg_gender_map, failed>>
    /\ UNCHANGED <<object, text, gender_map, bound, doc, entities, outcome, result,
                   corefMap, corefEngine, corefCalls, predictCalls, genderCall, llmCalls, producer>>

\* history record of one identify_gender_llm call; the completion outcome is
\* recorded only when the completion service was called
GenderCall(tier, entity, type, r, llm) ==
    [tier |-> tier, entity |-> entity, type |-> type,
     gender |-> r.gender, called |-> r.called,
     raises |-> r.called /\ llm.raises,
     response |-> IF r.called THEN llm.response ELSE <<>>]

\* one iteration of "for node in graph_documents[0].nodes"
PrimaryAddNode ==
    /\ UNCHANGED <<translation, page, replay>>
    /\ pc = "prim_nodes"
    /\ idx <= Len(graph_documents.nodes)
    /\ LET node == graph_documents.nodes[idx] IN
       IF ~node.ok
       THEN /\ pc' = "except"
            /\ failed' = failed \cup {"primary"}
            /\ UNCHANGED <<G, idx, genderCall, llmCalls>>
       ELSE \E llm \in LlmOutcomes :
              LET r == identify_gender_llm(node.id, node.type, gender_map, llm) IN
              /\ genderCall' = GenderCall("primary", node.id, node.type, r, llm)
              /\ llmCalls' = llmCalls + (IF r.called THEN 1 ELSE 0)
              /\ IF r.raised
                 THEN /\ pc' = "except"
                      /\ failed' = failed \cup {"primary"}
                      /\ UNCHANGED <<G, idx>>
                 ELSE /\ G' = add_node(G, node.id, {"type", "gender", "properties"},
                                       node.type, r.gender)
                      /\ idx' = idx + 1
                      /\ pc' = pc
                      /\ failed' = failed
    /\ UNCHANGED <<object, text, gender_map, bound, graph_documents, inTry, bg_text,
                   bg_gender_map, doc, entities, outcome, result, tiers, corefMap, corefEngine,
                   corefCalls, predictCalls, producer>>

RECURSIVE AddRelationships(_, _, _)
AddRelationships(g, rels, i) ==
    IF i > Len(rels) THEN g
    ELSE AddRelationships(add_edge(g, rels[i].source, rels[i].target, rels[i].type),
                          rels, i + 1)

\* "for rel in graph_documents[0].relationships" and the return that follows
PrimaryReturn ==
    /\ UNCHANGED <<translation, page, replay>>
    /\ pc = "prim_nodes"
    /\ idx > Len(graph_documents.nodes)
    /\ IF \/ graph_documents.kind = "no_rels_attr"
          \/ \E i \in 1..Len(graph_documents.rels) : ~graph_documents.rels[i].ok
       THEN /\ pc' = "except"
            /\ failed' = failed \cup {"primary"}
            /\ UNCHANGED <<G, outcome, result, producer>>
       ELSE LET G2 == AddRelationships(G, graph_documents.rels, 1)
                d  == GraphDict(G2)
            IN  /\ G' = G2
                /\ IF d.raised
                   THEN /\ pc' = "except"
                        /\ failed' = failed \cup {"primary"}
                        /\ UNCHANGED <<outcome, result, producer>>
                   ELSE /\ pc' = "done"
                        /\ outcome' = "returned"
                        /\ result' = [nodes |-> d.nodes, relationships |-> d.relationships]
                        /\ producer' = "primary"
                        /\ UNCHANGED failed
    /\ UNCHANGED <<object, text, gender_map, bound, graph_documents, idx, inTry, bg_text,
                   bg_gender_map, doc, entities, tiers, corefMap, corefEngine, corefCalls,
                   predictCalls, genderCall, llmCalls>>

\* "except Exception as e: ... return self._create_basic_graph(text, gender_map)";
\* reading gender_map before it was assigned raises out of the handler
Except ==
    /\ UNCHANGED <<translation, page, replay>>
    /\ pc = "except"
    /\ IF ~bound
       THEN /\ pc' = "done"
            /\ outcome' = "raised"
            /\ UNCHANGED <<inTry, bg_text, bg_gender_map, tiers>>
       ELSE /\ pc' = "basic"
            /\ inTry' = FALSE
            /\ bg_text' = CallArgs(text, gender_map).text
            /\ bg_gender_map' = CallArgs(text, gender_map).gender_map
            /\ tiers' = Append(tiers, Attempt("secondary", CallArgs(text, gender_map).text,
                                              CallArgs(text, gender_map).gender_map))
            /\ UNCHANGED outcome
    /\ UNCHANGED <<object, text, gender_map, bound, graph_documents, G, idx, doc,
                   entities, result, corefMap, corefEngine, corefCalls, predictCalls, genderCall,
                   llmCalls, failed, producer>>

\* _create_basic_graph up to "entities" being filled: _load_spacy (or the
\* nlp-is-None test of the Enhanced class), nlp(text), the pass over doc.ents
BasicParse ==
    /\ UNCHANGED <<translation, page, replay>>
    /\ pc = "basic"
    /\ \E sp \in SpacyEngine :
         LET must_load  == nlp = "None"
             load_fails == must_load /\ (cls = "EnhancedKnowledgeGraphGenerator"
                                          \/ sp.load_raises)
         IN  /\ nlp' = IF load_fails THEN "None" ELSE "loaded"
             /\ loads' = [loads EXCEPT
                            !.nlp = @ + (IF must_load /\ ~load_fails THEN 1 ELSE 0)]
             /\ IF load_fails \/ sp.kind # "doc"
                THEN /\ pc' = "basic_except"
                     /\ failed' = failed \cup {"secondary"}
                     /\ UNCHANGED <<G, idx, doc, entities>>
                ELSE /\ pc' = "basic_nodes"
                     /\ failed' = failed
                     /\ doc' = sp.doc
                     /\ G' = EmptyGraph
                     /\ idx' = 1
                     /\ entities' \in Orders(EntitySet(sp.doc))
    /\ UNCHANGED <<cls, coref_model, requests, text, gender_map, bound, graph_documents,
                   inTry, bg_text, bg_gender_map, outcome, result, tiers, corefMap, corefEngine,
                   corefCalls,
                   predictCalls, genderCall, llmCalls, producer>>

\* one iteration of "for entity in entities"
BasicAddNode ==
    /\ UNCHANGED <<translation, page, replay>>
    /\ pc = "basic_nodes"
    /\ idx <= Len(entities)
    /\ LET entity      == entities[idx]
           entity_type == FirstLabel(doc, entity)
       IN  IF entity \in DOMAIN bg_gender_map
           THEN /\ G' = add_node(G, entity, {"type", "gender"}, entity_type,
                                 bg_gender_map[entity])
                /\ idx' = idx + 1
                /\ UNCHANGED <<pc, genderCall, llmCalls, failed>>
           ELSE \E llm \in LlmOutcomes :
                  LET r == identify_gender_llm(entity, entity_type, bg_gender_map, llm) IN
                  /\ genderCall' = GenderCall("secondary", entity, entity_type, r, llm)
                  /\ llmCalls' = llmCalls + (IF r.called THEN 1 ELSE 0)
                  /\ IF r.raised
                     THEN /\ pc' = "basic_except"
                          /\ failed' = failed \cup {"secondary"}
                          /\ UNCHANGED <<G, idx>>
                     ELSE /\ G' = add_node(G, entity, {"type", "gender"}, entity_type,
                                           r.gender)
                          /\ idx' = idx + 1
                          /\ UNCHANGED <<pc, failed>>
    /\ UNCHANGED <<object, text, gender_map, bound, graph_documents, inTry, bg_text,
                   bg_gender_map, doc, entities, outcome, result, tiers, corefMap,
                   corefEngine, corefCalls, predictCalls, producer>>

\* dependency edges, density backstop and the return of the secondary tier
BasicReturn ==
    /\ UNCHANGED <<translation, page, replay>>
    /\ pc = "basic_nodes"
    /\ idx > Len(entities)
    /\ LET G2 == Backstop(DependencyEdges(G, doc.sents, entities, 1), entities)
           d  == GraphDict(G2)
       IN  /\ G' = G2
           /\ IF d.raised
              THEN /\ pc' = "basic_except"
                   /\ failed' = failed \cup {"secondary"}
                   /\ UNCHANGED <<outcome, result, producer>>
              ELSE /\ pc' = "done"
                   /\ outcome' = "returned"
                   /\ result' = [nodes |-> d.nodes, relationships |-> d.relationships]
                   /\ producer' = "secondary"
                   /\ UNCHANGED failed
    /\ UNCHANGED <<object, text, gender_map, bound, graph_documents, idx, inTry, bg_text,
                   bg_gender_map, doc, entities, tiers, corefMap, corefEngine, corefCalls,
                   predictCalls, genderCall, llmCalls>>

\* the except branch of _create_basic_graph; an exception raised in it leaves
\* _create_basic_graph and reaches the handler of create_graph_from_text only
\* when the call was made from inside the try block
BasicExcept ==
    /\ UNCHANGED <<translation, page, replay>>
    /\ pc = "basic_except"
    /\ tiers' = Append(tiers, Attempt("tertiary", bg_text, bg_gender_map))
    /\ LET r == basic_graph_tertiary(bg_text, bg_gender_map) IN
       IF r.raised
       THEN /\ IF inTry
               THEN pc' = "except" /\ UNCHANGED outcome
               ELSE pc' = "done" /\ outcome' = "raised"
            /\ failed' = failed \cup {"tertiary"}
            /\ UNCHANGED <<result, producer>>
       ELSE /\ pc' = "done"
            /\ outcome' = "returned"
            /\ result' = [nodes |-> r.nodes, relationships |-> r.relationships]
            /\ producer' = "tertiary"
            /\ UNCHANGED failed
    /\ UNCHANGED <<object, locals, corefMap, corefEngine, corefCalls, predictCalls, genderCall, llmCalls>>

\* what client.chat.completions.create can do: answer with a choice, answer
\* without any, or raise
Completions == {"content", "no_choices", "raises"}

\* translate_text with the request wrapped in a handler that returns a default
translate_text_caught(completion) ==
    [completion |-> completion, requests |-> 1, outcome |-> "returned"]

\* translate_text(prompt), given what the completion service does: one
\* request; its exception, or the IndexError of choices[0], reaches the caller
translate_text(completion) ==
    [completion |-> completion,
     requests   |-> 1,
     outcome    |-> IF completion = "content" THEN "returned" ELSE "raised"]

\* the page, holding a returned graph, calls kg_generator.translate_text(prompt)
TranslateText ==
    /\ cls = "EnhancedKnowledgeGraphGenerator"
    /\ pc = "done"
    /\ outcome = "returned"
    /\ translation = NoTranslation
    /\ \E completion \in Completions : translation' = translate_text(completion)
    /\ UNCHANGED <<object, pc, locals, outcome, result, history, page, replay>>

Next ==
    \/ Request
    \/ IdentifyGendersCoref
    \/ ConvertToGraphDocuments
    \/ PrimaryAddNode
    \/ PrimaryReturn
    \/ Except
    \/ BasicParse
    \/ BasicAddNode
    \/ BasicReturn
    \/ BasicExcept
    \/ TranslateText

Spec == Init /\ [][Next]_vars

TypeOK ==
    /\ cls \in Classes
    /\ coref_model \in {"None", "loaded"}
    /\ nlp \in {"None", "loaded"}
    /\ requests \in 0..MaxRequests
    /\ pc \in {"idle", "coref", "convert", "prim_nodes", "except", "basic",
                "basic_nodes", "basic_except", "done"}
    /\ outcome \in {"none", "returned", "raised"}
    /\ producer \in {"none", "primary", "secondary", "tertiary"}

(* ------------------------ translation prompt --------------------------- *)

TranslateTo ==
    << "T", "r", "a", "n", "s", "l", "a", "t", "e", " ", "t", "o", " " >>

UsingOnly ==
    << " ", "(", "u", "s", "e", " ", "n", "a", "t", "i", "v", "e", " ", "s", "c", "r", "i",
       "p", "t", ")", " ", "u", "s", "i", "n", "g", " ", "o", "n", "l", "y", " ", "t", "h",
       "e", " ", "g", "e", "n", "d", "e", "r", " ", "a", "n", "d", " ", "r", "e", "l", "a",
       "t", "i", "o", "n", "s", "h", "i", "p", " ", "c", "o", "n", "t", "e", "x", "t", " ",
       "o", "f", " ", "e", "n", "t", "i", "t", "i", "e", "s", " ", "f", "r", "o", "m", " ",
       "m", "e", "t", "a", "d", "a", "t", "a", ";", " ", "r", "e", "p", "l", "y", " ", "w",
       "i", "t", "h", " ", "o", "n", "l", "y", " ", "t", "h", "e", " ", "t", "r", "a", "n",
       "s", "l", "a", "t", "e", "d", " ", "t", "e", "x", "t", ":", " " >>

MetaData ==
    << " ", "M", "e", "t", "a", " ", "d", "a", "t", "a", ":", " " >>

StructureNodes ==
    << "K", "n", "o", "w", "l", "e", "d", "g", "e", " ", "G", "r", "a", "p", "h", " ", "S",
       "t", "r", "u", "c", "t", "u", "r", "e", ":", " ", "N", "o", "d", "e", "s", ":", " " >>

DotRelationships ==
    << ".", " ", "R", "e", "l", "a", "t", "i", "o", "n", "s", "h", "i", "p", "s", ":", " " >>

TypeColon ==
    << " ", "(", "T", "y", "p", "e", ":", " " >>

GenderColon ==
    << ",", " ", "G", "e", "n", "d", "e", "r", ":", " " >>

ArrowOpen ==
    << " ", "-", "-", "[" >>

ArrowClose ==
    << "]", "-", "-", ">", " " >>

hindi ==
    << "h", "i", "n", "d", "i" >>

spanish ==
    << "s", "p", "a", "n", "i", "s", "h" >>

french ==
    << "f", "r", "e", "n", "c", "h" >>

german ==
    << "g", "e", "r", "m", "a", "n" >>


\* knowledge_graph.get(key, [])
Get(d, key) == IF key \in DOMAIN d THEN d[key] ELSE <<>>

\* a join that drops the separator
RECURSIVE JoinNoSeparator(_, _)
JoinNoSeparator(parts, sep) ==
    IF parts = <<>> THEN <<>> ELSE Head(parts) \o JoinNoSeparator(Tail(parts), sep)

\* sep.join(parts)
RECURSIVE Join(_, _)
Join(parts, sep) ==
    IF parts = <<>> THEN <<>>
    ELSE IF Len(parts) = 1 THEN Head(parts)
    ELSE Head(parts) \o sep \o Join(Tail(parts), sep)

\* f"{node['id']} (Type: {node['type']}, Gender: {node['gender']})"
NodeMetadata(node) ==
    node.id \o TypeColon \o node.type \o GenderColon \o node.gender \o <<")">>

\* f"{rel['source']} --[{rel['type']}]--> {rel['target']}"
RelationshipMetadata(rel) ==
    rel.source \o ArrowOpen \o rel.type \o ArrowClose \o rel.target

\* generate_translation_prompt(sample_text, knowledge_graph, target_lang)
generate_translation_prompt(txt, kg, lang) ==
    LET nodes         == Get(kg, "nodes")
        relationships == Get(kg, "relationships")
        node_metadata == Join([i \in 1..Len(nodes) |-> NodeMetadata(nodes[i])],
                              <<",", " ">>)
        relationship_metadata ==
            Join([i \in 1..Len(relationships) |-> RelationshipMetadata(relationships[i])],
                 <<",", " ">>)
        metadata == StructureNodes \o node_metadata \o DotRelationships
                    \o relationship_metadata \o <<".">>
    IN  [raised  |-> FALSE,
         role    |-> "user",
         content |-> TranslateTo \o lang \o UsingOnly \o txt \o MetaData \o metadata
                     \o <<" ">>]

\* target_lang.lower() of the languages the page offers
PageLanguages == {hindi, spanish, french, german}

GNode(id, type, gender) == [id |-> id, type |-> type, gender |-> gender]

GRel(u, type, v) == [source |-> u, target |-> v, type |-> type]

\* the dictionaries generate_translation_prompt is called with: returned
\* graphs, and dictionaries without the 'nodes' or the 'relationships' key
PromptGraphs ==
    { NoResult,
      [nodes |-> <<GNode(Kiran, TPerson, Male)>>, relationships |-> <<>>],
      [nodes |-> <<GNode(Kiran, TPerson, Male), GNode(Sita, TPerson, Female)>>,
       relationships |-> <<GRel(Kiran, KNOWS, Sita)>>],
      [nodes |-> <<GNode(Sita, TEntity, Unknown), GNode(Delhi, TLocation, Unknown),
                   GNode(Kiran, TPerson, Male)>>,
       relationships |-> <<GRel(Sita, GOES_TO, Delhi), GRel(Kiran, RELATED_TO, Sita),
                           GRel(Sita, KNOWS, Sita)>>],
      [nodes |-> <<GNode(Kiran, TPerson, Male), GNode(Sita, TPerson, Female)>>],
      [relationships |-> <<GRel(Kiran, KNOWS, Sita)>>],
      [nodes |-> <<>>],
      [x \in {} |-> <<>>] }

PromptTexts == {<<>>, Kiran \o SP \o met \o SP \o Sita, he \o SP \o ran}

\* a page holding a text, a dictionary and a target language
PromptInit ==
    /\ cls = "EnhancedKnowledgeGraphGenerator"
    /\ coref_model = "loaded"
    /\ nlp = "loaded"
    /\ requests = 0
    /\ loads = [coref_model |-> 1, nlp |-> 1]
    /\ Idle
    /\ sample_text \in PromptTexts
    /\ knowledge_graph \in PromptGraphs
    /\ target_lang \in PageLanguages
    /\ prompt = NoPrompt
    /\ inputs = NoInputs
    /\ runs = NoRuns

\* prompt = kg_generator.generate_translation_prompt(input_text, graph, lang)
GenerateTranslationPrompt ==
    /\ prompt = NoPrompt
    /\ prompt' = generate_translation_prompt(sample_text, knowledge_graph, target_lang)
    /\ UNCHANGED <<object, pc, locals, outcome, result, history, translation,
                   sample_text, knowledge_graph, target_lang, replay>>

PromptNext == GenerateTranslationPrompt

PromptSpec == PromptInit /\ [][PromptNext]_vars

(* ------------------- one request as a function ------------------------ *)

\* the answer the completion service gives to the n-th request of a call
Answer(llm, n) == llm[IF n <= Len(llm) THEN n ELSE Len(llm)]

\* the completion requests made so far, with the one identify_gender_llm made
Called(calls, r, entity, type) ==
    IF r.called THEN Append(calls, [entity |-> entity, type |-> type]) ELSE calls

\* "for node in graph_documents[0].nodes", from node i on
RECURSIVE PrimaryNodes(_, _, _, _, _, _)
PrimaryNodes(g, nodes, i, gm, llm, calls) ==
    IF i > Len(nodes) THEN [raised |-> FALSE, G |-> g, calls |-> calls]
    ELSE IF ~nodes[i].ok THEN [raised |-> TRUE, G |-> g, calls |-> calls]
    ELSE LET r == identify_gender_llm(nodes[i].id, nodes[i].type, gm,
                                      Answer(llm, Len(calls) + 1))
             c == Called(calls, r, nodes[i].id, nodes[i].type)
         IN  IF r.raised THEN [raised |-> TRUE, G |-> g, calls |-> c]
             ELSE PrimaryNodes(add_node(g, nodes[i].id, {"type", "gender", "properties"},
                                        nodes[i].type, r.gender),
                               nodes, i + 1, gm, llm, c)

\* "for entity in entities", from entity i on
RECURSIVE BasicNodes(_, _, _, _, _, _, _)
BasicNodes(g, d, ents, i, gm, llm, calls) ==
    IF i > Len(ents) THEN [raised |-> FALSE, G |-> g, calls |-> calls]
    ELSE LET entity      == ents[i]
             entity_type == FirstLabel(d, entity)
         IN  IF entity \in DOMAIN gm
             THEN BasicNodes(add_node(g, entity, {"type", "gender"}, entity_type,
                                      gm[entity]),
                             d, ents, i + 1, gm, llm, calls)
             ELSE LET r == identify_gender_llm(entity, entity_type, gm,
                                               Answer(llm, Len(calls) + 1))
                      c == Called(calls, r, entity, entity_type)
                  IN  IF r.raised THEN [raised |-> TRUE, G |-> g, calls |-> c]
                      ELSE BasicNodes(add_node(g, entity, {"type", "gender"},
                                               entity_type, r.gender),
                                      d, ents, i + 1, gm, llm, c)

\* a _create_basic_graph that never loads the model itself
spacy_handle_never_loads(c, handle, sp) == [raised |-> handle = "None", nlp |-> handle]

\* the first statement of _create_basic_graph: self._load_spacy() in
\* KnowledgeGraphGenerator, the test "self.nlp is None" in the Enhanced class
spacy_handle(c, handle, sp) ==
    IF c = "KnowledgeGraphGenerator"
    THEN IF handle = "loaded" THEN [raised |-> FALSE, nlp |-> "loaded"]
         ELSE IF sp.load_raises THEN [raised |-> TRUE, nlp |-> "None"]
         ELSE [raised |-> FALSE, nlp |-> "loaded"]
    ELSE [raised |-> handle = "None", nlp |-> handle]

Ran(raised, obj, tried, calls, tier, res) ==
    [raised |-> raised, obj |-> obj, tiers |-> tried, calls |-> calls,
     producer |-> tier, result |-> res]

\* _create_basic_graph(text, gender_map) on an object with handles obj
create_basic_graph(c, obj, inp, gm, calls, tried) ==
    LET h     == spacy_handle(c, obj.nlp, inp.sp)
        obj2  == [obj EXCEPT !.nlp = h.nlp]
        t2    == Append(tried, "secondary")
        t3    == Append(t2, "tertiary")
        n     == BasicNodes(EmptyGraph, inp.sp.doc, inp.order, 1, gm, inp.llm, calls)
        d     == GraphDict(Backstop(DependencyEdges(n.G, inp.sp.doc.sents, inp.order, 1),
                                    inp.order))
        third == basic_graph_tertiary(inp.text, gm)
        last(cs) == IF third.raised THEN Ran(TRUE, obj2, t3, cs, "none", NoResult)
                    ELSE Ran(FALSE, obj2, t3, cs, "tertiary",
                             [nodes |-> third.nodes, relationships |-> third.relationships])
    IN  IF h.raised \/ inp.sp.kind # "doc" THEN last(calls)
        ELSE IF n.raised \/ d.raised THEN last(n.calls)
        ELSE Ran(FALSE, obj2, t2, n.calls, "secondary",
                 [nodes |-> d.nodes, relationships |-> d.relationships])

\* an identify_genders_coref that never builds the model itself
coref_answer_never_loads(c, handle, inp) ==
    IF handle = "None" THEN [kind |-> "load_raises", clusters |-> <<>>] ELSE inp.engine

\* what identify_genders_coref gets from the coreference engine:
\* KnowledgeGraphGenerator builds the model first when the handle is None
coref_answer(c, handle, inp) ==
    IF c = "KnowledgeGraphGenerator" /\ handle = "None" /\ inp.coref_load_raises
    THEN [kind |-> "load_raises", clusters |-> <<>>]
    ELSE inp.engine

\* create_graph_from_text(text) on an object of class c with handles obj,
\* given the text and what every service answers (inp)
create_graph_from_text(c, obj, inp) ==
    LET engine == coref_answer(c, obj.coref_model, inp)
        obj1   == [obj EXCEPT !.coref_model =
                      IF engine.kind = "load_raises" THEN "None" ELSE "loaded"]
        coref  == identify_genders_coref(engine)
        gm     == coref.gender_map
        gd     == inp.gd
        first  == <<"primary">>
        n      == PrimaryNodes(EmptyGraph, gd.nodes, 1, gm, inp.llm, <<>>)
        d      == GraphDict(AddRelationships(n.G, gd.rels, 1))
        early  == create_basic_graph(c, obj1, inp, gm, <<>>, first)
        handler(o, cs, ts) == create_basic_graph(c, o, inp, gm, cs, ts)
    IN  IF coref.raised THEN Ran(TRUE, obj1, <<>>, <<>>, "none", NoResult)
        ELSE IF gd.kind = "raises" THEN handler(obj1, <<>>, first)
        ELSE IF NothingUsable(gd)
        THEN IF early.raised THEN handler(early.obj, early.calls, early.tiers) ELSE early
        ELSE IF n.raised THEN handler(obj1, n.calls, first)
        ELSE IF \/ gd.kind = "no_rels_attr"
                \/ \E i \in 1..Len(gd.rels) : ~gd.rels[i].ok
        THEN handler(obj1, n.calls, first)
        ELSE IF d.raised THEN handler(obj1, n.calls, first)
        ELSE Ran(FALSE, obj1, first, n.calls, "primary",
                 [nodes |-> d.nodes, relationships |-> d.relationships])

ReplayTexts == {Kiran \o SP \o met \o SP \o Sita, he \o SP \o ran}

ReplayEngines ==
    {[kind |-> "predict_raises", clusters |-> <<>>],
     [kind |-> "clusters", clusters |-> << <<Sita, his, he>> >>],
     [kind |-> "clusters", clusters |-> << <<Kiran, He>>, <<Sita, she>> >>]}

ReplayAnswers ==
    {[raises |-> TRUE, response |-> <<>>],
     [raises |-> FALSE, response |-> Male],
     [raises |-> FALSE, response |-> SP \o Female \o SP]}

Handles == [coref_model : {"None", "loaded"}, nlp : {"None", "loaded"}]

\* a fresh KnowledgeGraphGenerator
FreshHandles == [coref_model |-> "None", nlp |-> "None"]

\* the text of one request, what each service answers in it, the handles
\* earlier requests left on a KnowledgeGraphGenerator (before) and whether
\* __init__ of the Enhanced class could load spaCy (enhanced_nlp); a handle
\* is loaded only where loading does not raise
ReplayInit ==
    /\ Constructed
    /\ cls = "KnowledgeGraphGenerator"
    /\ Idle
    /\ sample_text = <<>>
    /\ knowledge_graph = NoResult
    /\ target_lang = <<>>
    /\ prompt = NoPrompt
    /\ runs = NoRuns
    /\ inputs \in
          {i \in [text : ReplayTexts,
                  coref_load_raises : BOOLEAN,
                  engine : ReplayEngines,
                  gd : GraphDocuments,
                  sp : SpacyEngine,
                  order : UNION {Orders(EntitySet(sp.doc)) : sp \in SpacyEngine},
                  llm : ReplayAnswers \X ReplayAnswers,
                  before : Handles,
                  enhanced_nlp : {"None", "loaded"}] :
              /\ i.order \in Orders(EntitySet(i.sp.doc))
              /\ i.before.coref_model = "loaded" => ~i.coref_load_raises
              /\ i.before.nlp = "loaded" => ~i.sp.load_raises
              /\ i.enhanced_nlp = "loaded" => ~i.sp.load_raises}

\* the request of inputs served by a fresh KnowledgeGraphGenerator, by one
\* that served requests before, and by an EnhancedKnowledgeGraphGenerator
Replay ==
    /\ runs = NoRuns
    /\ runs' = [fresh    |-> create_graph_from_text("KnowledgeGraphGenerator",
                                                    FreshHandles, inputs),
                later    |-> create_graph_from_text("KnowledgeGraphGenerator",
                                                    inputs.before, inputs),
                enhanced |-> create_graph_from_text(
                                 "EnhancedKnowledgeGraphGenerator",
                                 [coref_model |-> "loaded", nlp |-> inputs.enhanced_nlp],
                                 inputs)]
    /\ UNCHANGED <<object, pc, locals, outcome, result, history, translation, page, inputs>>

ReplayNext == Replay

ReplaySpec == ReplayInit /\ [][ReplayNext]_vars

(* ------------------------------ claims --------------------------------- *)

Running == pc \notin {"idle", "done"}

NodeIds(g) == {g.nodes[i].id : i \in 1..Len(g.nodes)}

TierRank(t) == CASE t = "primary" -> 1 [] t = "secondary" -> 2 [] t = "tertiary" -> 3

Attempted(t) == \E i \in 1..Len(tiers) : tiers[i].tier = t

\* C1: create_graph_from_text never raises to its caller: whatever the
\* coreference engine, the graph transformer, the completion service and spaCy
\* do, no exception reaches the caller, the node loops stay within their
\* lists, and a finished call has returned a mapping with a 'nodes' list and a
\* 'relationships' list.
C1_Totality ==
    /\ outcome # "raised"
    /\ Running => outcome = "none"
    /\ pc = "prim_nodes" => idx \in 1..(Len(graph_documents.nodes) + 1)
    /\ pc = "basic_nodes" => idx \in 1..(Len(entities) + 1)
    /\ pc = "done" =>
          /\ outcome = "returned"
          /\ DOMAIN result = {"nodes", "relationships"}
          /\ DOMAIN result.nodes = 1..Len(result.nodes)
          /\ DOMAIN result.relationships = 1..Len(result.relationships)

\* a call on the empty text in which the coreference engine, the graph
\* transformer and spaCy all failed, and which still returned a graph
C1_Witness ==
    /\ pc = "done"
    /\ text = <<>>
    /\ predictCalls = 0
    /\ graph_documents.kind = "raises"
    /\ failed = {"primary", "secondary"}
    /\ outcome = "returned"
    /\ result = NoResult

\* C2: once the primary path has raised, the secondary extractor is called
\* with the text of the request and the gender map computed upfront; once the
\* secondary has raised too, the tertiary is called with the same arguments;
\* the call returns the graph of the first tier that did not raise.
C2_FallbackEscalation ==
    /\ ("primary" \in failed /\ pc # "except") =>
          /\ Len(tiers) >= 2
          /\ tiers[2] = Attempt("secondary", text, corefMap)
    /\ ("primary" \in failed /\ "secondary" \in failed /\ pc # "basic_except") =>
          /\ Len(tiers) >= 3
          /\ tiers[3] = Attempt("tertiary", text, corefMap)
    /\ ("primary" \in failed /\ pc = "done") =>
          /\ outcome = "returned"
          /\ producer \notin failed
          /\ \A i \in 1..Len(tiers) :
                tiers[i].tier \notin failed => (i = Len(tiers) /\ producer = tiers[i].tier)

\* the primary raised after the coreference pass had found a gender, and the
\* secondary tier produced the returned graph
C2_Witness ==
    /\ pc = "done"
    /\ failed = {"primary"}
    /\ corefMap # EmptyMap
    /\ producer = "secondary"
    /\ result.nodes # <<>>

\* C3: within one call the tiers are attempted in the order primary,
\* secondary, tertiary, each at most once, and the tier that returned the
\* graph is the last one attempted; this includes the call of
\* _create_basic_graph made from inside the primary try block.
C3_TierOrder ==
    /\ \A i, j \in 1..Len(tiers) :
          i < j => TierRank(tiers[i].tier) < TierRank(tiers[j].tier)
    /\ tiers # <<>> => tiers[1].tier = "primary"
    /\ Attempted("tertiary") => Attempted("secondary")
    /\ (pc = "done" /\ outcome = "returned") => producer = tiers[Len(tiers)].tier

\* the early return inside the try block was taken, the secondary raised and
\* the tertiary returned
C3_Witness ==
    /\ pc = "done"
    /\ inTry
    /\ Len(tiers) = 3
    /\ producer = "tertiary"

EmptyPrimaryResult(gd) ==
    \/ gd.kind = "empty"
    \/ gd.kind = "doc" /\ gd.nodes = <<>> /\ gd.rels = <<>>

\* C4: whenever the primary extractor completes without raising but with an
\* empty result (the graph transformer answers with no documents, or with a
\* document of zero nodes and zero relationships), the secondary extractor is
\* attempted and the empty primary graph is not returned.
C4_EmptyPrimaryEscalates ==
    (pc = "done" /\ EmptyPrimaryResult(graph_documents)) =>
        (Attempted("secondary") /\ producer # "primary")

\* C5: in every returned graph every relationship's source and target are
\* ids of entries of nodes.
C5_EdgeEndpoints ==
    outcome = "returned" =>
        \A i \in 1..Len(result.relationships) :
            /\ result.relationships[i].source \in NodeIds(result)
            /\ result.relationships[i].target \in NodeIds(result)

\* the graph transformer named an endpoint that is not one of its nodes, and
\* the call returned a graph with relationships
C5_Witness ==
    /\ pc = "done"
    /\ outcome = "returned"
    /\ result.relationships # <<>>
    /\ \E i \in 1..Len(graph_documents.rels) :
          /\ graph_documents.rels[i].ok
          /\ graph_documents.rels[i].target \notin NodeIds(graph_documents)

\* C6: in every returned graph no two entries of nodes have the same id.
C6_NodeIdsUnique ==
    outcome = "returned" =>
        \A i, j \in 1..Len(result.nodes) :
            result.nodes[i].id = result.nodes[j].id => i = j

\* the primary tier returned a graph although the graph transformer listed
\* the same node id twice
C6_Witness ==
    /\ pc = "done"
    /\ producer = "primary"
    /\ result.nodes # <<>>
    /\ \E i, j \in 1..Len(graph_documents.nodes) :
          i < j /\ graph_documents.nodes[i].id = graph_documents.nodes[j].id

\* C7: in every returned graph every node carries a gender, and it is one of
\* 'male', 'female', 'unknown'.
C7_GenderVocabulary ==
    outcome = "returned" =>
        \A i \in 1..Len(result.nodes) :
            /\ "gender" \in DOMAIN result.nodes[i]
            /\ result.nodes[i].gender \in Genders

\* a graph was returned after the completion service had answered a gender
\* request with a word outside the vocabulary
C7_Witness ==
    /\ pc = "done"
    /\ outcome = "returned"
    /\ genderCall.called
    /\ ~genderCall.raises
    /\ Strip(Lower(genderCall.response)) \notin Genders
    /\ genderCall.entity \in NodeIds(result)

\* C8: a node whose id is a key of the coreference gender map has the map's
\* gender in the returned graph, whichever tier built it, and
\* identify_gender_llm returns the map's gender for such an entity without
\* calling the completion service.
C8_CorefPrecedence ==
    /\ outcome = "returned" =>
          \A i \in 1..Len(result.nodes) :
              result.nodes[i].id \in DOMAIN corefMap =>
                  result.nodes[i].gender = corefMap[result.nodes[i].id]
    /\ (genderCall.tier # "none" /\ genderCall.entity \in DOMAIN corefMap) =>
          /\ genderCall.gender = corefMap[genderCall.entity]
          /\ ~genderCall.called

\* the primary tier returned a person node whose id the coreference pass had
\* mapped to a gender
C8_Witness ==
    /\ pc = "done"
    /\ producer = "primary"
    /\ genderCall.tier = "primary"
    /\ Lower(genderCall.type) = person
    /\ genderCall.entity \in DOMAIN corefMap
    /\ genderCall.entity \in NodeIds(result)

\* C9: for an entity that is not a key of the gender map and whose type,
\* lower-cased, is not 'person', identify_gender_llm returns 'unknown' and
\* does not call the completion service (in both generator classes).
C9_NonPersonShortCircuit ==
    (/\ genderCall.tier # "none"
     /\ genderCall.entity \notin DOMAIN corefMap
     /\ Lower(genderCall.type) # person) =>
        (genderCall.gender = Unknown /\ ~genderCall.called)

\* identify_gender_llm was just called for a Location that the coreference
\* pass knows nothing about
C9_Witness ==
    /\ genderCall.tier = "primary"
    /\ genderCall.type = TLocation
    /\ genderCall.entity \notin DOMAIN corefMap
    /\ llmCalls = 0

\* C10 as stated: one call invokes identify_genders_coref, and hence the
\* coreference engine's predict, exactly once, before any tier runs, and every
\* tier attempted is handed that same map.
C10_Original ==
    /\ pc \in {"idle", "coref"} => tiers = <<>>
    /\ pc \notin {"idle", "coref"} => (corefCalls = 1 /\ predictCalls = 1)
    /\ \A i \in 1..Len(tiers) : tiers[i].gender_map = corefMap

\* C10 amended: one call invokes identify_genders_coref exactly once, before
\* any tier runs, and every tier attempted is handed that same map; the
\* coreference engine's predict is invoked at most once: exactly once when the
\* coreference model is available, not at all when loading it raised.
C10_GenderMapOnce ==
    /\ pc \in {"idle", "coref"} => (tiers = <<>> /\ corefCalls = 0 /\ predictCalls = 0)
    /\ pc \notin {"idle", "coref"} =>
          /\ corefCalls = 1
          /\ predictCalls = IF coref_model = "loaded" THEN 1 ELSE 0
    /\ \A i \in 1..Len(tiers) : tiers[i].gender_map = corefMap

\* all three tiers were attempted in one call whose coreference pass found a
\* gender
C10_Witness ==
    /\ pc = "done"
    /\ Len(tiers) = 3
    /\ corefMap # EmptyMap
    /\ predictCalls = 1

Pronouns == male_pronouns \cup female_pronouns

Mentions(cluster) == {cluster[i] : i \in 1..Len(cluster)}

\* a mention the rule assigns a gender to: not a pronoun, upper-case initial
Qualifies(m) == m # <<>> /\ Lower(m) \notin Pronouns /\ FirstIsUpper(m)

HasPronoun(cluster, pronouns) == \E m \in Mentions(cluster) : Lower(m) \in pronouns

\* the gender a cluster decides, <<>> when it decides none
ClusterGender(cluster) ==
    IF HasPronoun(cluster, male_pronouns) /\ ~HasPronoun(cluster, female_pronouns)
    THEN Male
    ELSE IF HasPronoun(cluster, female_pronouns) /\ ~HasPronoun(cluster, male_pronouns)
    THEN Female
    ELSE <<>>

\* the last cluster that decides a gender for mention m
LastDeciding(clusters, m) ==
    CHOOSE k \in 1..Len(clusters) :
        /\ m \in Mentions(clusters[k]) /\ ClusterGender(clusters[k]) # <<>>
        /\ \A j \in 1..Len(clusters) :
              (m \in Mentions(clusters[j]) /\ ClusterGender(clusters[j]) # <<>>) => j <= k

\* C11: the coreference decision rule. A key of the map is always a
\* non-pronoun mention with an upper-case initial, of a cluster that holds
\* male pronouns and no female ones (then its gender is male) or the reverse;
\* when the clusters hold no empty mention, every such mention of every such
\* cluster is a key, with the gender of the last such cluster that holds it;
\* clusters [["Sita","his","he"]] give exactly {"Sita": "male"}.
C11_DecisionRule ==
    corefEngine.kind = "clusters" =>
        LET cl == corefEngine.clusters IN
        /\ \A e \in DOMAIN corefMap :
              /\ Qualifies(e)
              /\ \E k \in 1..Len(cl) :
                    e \in Mentions(cl[k]) /\ ClusterGender(cl[k]) = corefMap[e]
        /\ (\A k \in 1..Len(cl) : <<>> \notin Mentions(cl[k])) =>
              \A k \in 1..Len(cl) : \A m \in Mentions(cl[k]) :
                  (ClusterGender(cl[k]) # <<>> /\ Qualifies(m)) =>
                      /\ m \in DOMAIN corefMap
                      /\ corefMap[m] = ClusterGender(cl[LastDeciding(cl, m)])
        /\ cl = << <<Sita, his, he>> >> =>
              (DOMAIN corefMap = {Sita} /\ corefMap[Sita] = Male)

\* the coreference engine answered [["Sita","his","he"]] and the map is built
C11_Witness ==
    /\ pc = "convert"
    /\ corefEngine.kind = "clusters"
    /\ corefEngine.clusters = << <<Sita, his, he>> >>
    /\ Sita \in DOMAIN corefMap

EngineFailures == {"load_raises", "predict_raises", "get_clusters_raises"}

\* C12: identify_genders_coref never raises: once it has been called it has
\* returned a map to create_graph_from_text; when loading the model, predict
\* or get_clusters raised that map is empty, and so it is when the engine
\* finds no cluster, in particular for the empty text.
C12_CorefNeverRaises ==
    corefCalls > 0 =>
        /\ bound
        /\ corefEngine.kind \in EngineFailures \cup {"clusters"}
        /\ corefEngine.kind \in EngineFailures => corefMap = EmptyMap
        /\ (corefEngine.kind = "clusters" /\ corefEngine.clusters = <<>>) =>
              corefMap = EmptyMap

\* loading the coreference model raised and the request went on with {}
C12_Witness ==
    /\ pc = "convert"
    /\ corefEngine.kind = "load_raises"
    /\ bound /\ gender_map = EmptyMap

\* the completion service was asked and answered
Answered == genderCall.called /\ ~genderCall.raises

ShoutedMale == <<"M", "A", "L", "E">>

\* C13: response coercion. The completion service is asked only for a
\* person-typed entity that is no key of the gender map; its response is
\* lower-cased and stripped, and returned only when it is then exactly
\* 'male', 'female' or 'unknown'; every other response gives 'unknown', so
\* 'Male!' and "it's complicated" give 'unknown' while 'female' and
\* ' female ' both give 'female'.
C13_ResponseCoercion ==
    Answered =>
        LET response == genderCall.response
            coerced  == Strip(Lower(response))
        IN  /\ Lower(genderCall.type) = person
            /\ genderCall.entity \notin DOMAIN corefMap
            /\ genderCall.gender \in Genders
            /\ coerced \in Genders => genderCall.gender = coerced
            /\ coerced \notin Genders => genderCall.gender = Unknown
            /\ response = <<"M", "a", "l", "e", "!">> => genderCall.gender = Unknown
            /\ response = ItsComplicated => genderCall.gender = Unknown
            /\ response = <<"f", "e", "m", "a", "l", "e">> => genderCall.gender = Female
            /\ response = <<" ", "f", "e", "m", "a", "l", "e", " ">> =>
                  genderCall.gender = Female

\* the completion service answered ' female ' for a person of the primary
\* tier and the node went into the graph as female
C13_Witness ==
    /\ Answered
    /\ genderCall.tier = "primary"
    /\ genderCall.response = SP \o Female \o SP
    /\ \E i \in 1..Len(G.nodes) :
          G.nodes[i].id = genderCall.entity /\ G.nodes[i].gender = Female

\* C14 as stated: a response of 'MALE' is coerced to 'unknown'.
C14_Original ==
    (Answered /\ genderCall.response = ShoutedMale) => genderCall.gender = Unknown

\* C14 amended: a response of 'MALE' is lower-cased before it is compared
\* with the vocabulary, so identify_gender_llm returns 'male' for it.
C14_UpperCaseIsLowered ==
    (Answered /\ genderCall.response = ShoutedMale) => genderCall.gender = Male

\* the completion service answered 'MALE' for a person no coreference
\* cluster had named
C14_Witness ==
    /\ Answered
    /\ genderCall.response = ShoutedMale
    /\ Lower(genderCall.type) = person
    /\ genderCall.entity \notin DOMAIN corefMap

\* a first document the primary loops can walk without raising by themselves
PrimaryWalkable(gd) ==
    /\ gd.kind = "doc"
    /\ \A i \in 1..Len(gd.nodes) : gd.nodes[i].ok
    /\ \A i \in 1..Len(gd.rels) :
          /\ gd.rels[i].ok
          /\ \E j \in 1..Len(gd.nodes) : gd.nodes[j].id = gd.rels[i].source
          /\ \E j \in 1..Len(gd.nodes) : gd.nodes[j].id = gd.rels[i].target

\* C15: gender inference is never fatal. When the completion request raises,
\* identify_gender_llm returns 'unknown'; in the primary tier the node is then
\* in the graph with gender 'unknown' and the tier goes on, so that a
\* document whose nodes and relationships are well formed is returned by the
\* primary tier whatever the completion service did.
C15_GenderNeverFatal ==
    /\ genderCall.raises => (genderCall.called /\ genderCall.gender = Unknown)
    /\ (genderCall.tier = "primary" /\ genderCall.raises
          /\ pc \in {"prim_nodes", "except"}) =>
          \E i \in 1..Len(G.nodes) :
              /\ G.nodes[i].id = genderCall.entity
              /\ G.nodes[i].gender = Unknown
    /\ PrimaryWalkable(graph_documents) =>
          pc \notin {"except", "basic", "basic_nodes", "basic_except"}
    /\ (pc = "done" /\ PrimaryWalkable(graph_documents)) =>
          (producer = "primary" /\ failed = {} /\ Len(tiers) = 1)

\* the completion request of a primary node raised and the primary tier
\* returned the graph with that node
C15_Witness ==
    /\ pc = "done"
    /\ producer = "primary"
    /\ genderCall.tier = "primary"
    /\ genderCall.raises
    /\ \E i \in 1..Len(result.nodes) :
          /\ result.nodes[i].id = genderCall.entity
          /\ result.nodes[i].gender = Unknown

\* the capitalised words of the request text, in text order
Capitalised == SelectSeq(Split(text), FirstIsUpper)

Pairs(words) == {<<words[i], words[i + 1]>> : i \in 1..(Len(words) - 1)}

\* C16: the graph of the tertiary tier. Its nodes are exactly the distinct
\* capitalised whitespace-separated words of the text, each once, of type
\* 'Entity' and with the gender the map holds for the word, 'unknown' when it
\* holds none; its relationships are exactly the distinct pairs of
\* consecutive capitalised words, each once and of type 'RELATED_TO'. For
\* 'Kiran met Sita': nodes Kiran and Sita and the one edge Kiran -> Sita.
C16_TertiaryResult ==
    producer = "tertiary" =>
        LET words == Capitalised
            N     == result.nodes
            R     == result.relationships
        IN  /\ {N[i].id : i \in 1..Len(N)} = {words[i] : i \in 1..Len(words)}
            /\ \A i, j \in 1..Len(N) : N[i].id = N[j].id => i = j
            /\ \A i \in 1..Len(N) :
                  /\ N[i].type = TEntity
                  /\ N[i].gender = IF N[i].id \in DOMAIN corefMap
                                   THEN corefMap[N[i].id] ELSE Unknown
            /\ {<<R[i].source, R[i].target>> : i \in 1..Len(R)} = Pairs(words)
            /\ \A i, j \in 1..Len(R) :
                  (R[i].source = R[j].source /\ R[i].target = R[j].target) => i = j
            /\ \A i \in 1..Len(R) : R[i].type = RELATED_TO
            /\ text = Kiran \o SP \o met \o SP \o Sita =>
                  /\ {N[i].id : i \in 1..Len(N)} = {Kiran, Sita}
                  /\ R = <<[source |-> Kiran, target |-> Sita, type |-> RELATED_TO]>>

\* the tertiary tier returned the graph of a text that repeats one
\* capitalised word, whose gender the coreference pass had found
C16_Witness ==
    /\ pc = "done"
    /\ producer = "tertiary"
    /\ text = Sita \o SP \o SP \o Sita \o SP \o Sita
    /\ Sita \in DOMAIN corefMap
    /\ Len(result.nodes) = 1
    /\ Len(result.relationships) = 1

\* the texts of the requests that hold no capitalised token
NoCapitalTexts == {<<>>, SP \o SP, he \o SP \o ran}

\* C17: the tertiary tier always succeeds and is purely local. It never
\* raises, so a call that reached it ends with its graph; the step that runs
\* it calls neither the completion service nor the coreference engine, the
\* graph transformer or spaCy; for a text with no capitalised token, the
\* empty and the blank text included, its graph has no node and no
\* relationship.
C17_TertiaryLocal ==
    /\ [](/\ "tertiary" \notin failed
          /\ (pc = "done" /\ Attempted("tertiary")) =>
                (outcome = "returned" /\ producer = "tertiary")
          /\ (producer = "tertiary" /\ text \in NoCapitalTexts) => result = NoResult)
    /\ [][pc = "basic_except" =>
            /\ pc' = "done" /\ producer' = "tertiary"
            /\ UNCHANGED <<llmCalls, genderCall, corefCalls, predictCalls, corefEngine,
                           graph_documents, doc, coref_model, nlp>>]_vars

\* the tertiary tier returned the empty graph for a blank text
C17_Witness ==
    /\ pc = "done"
    /\ producer = "tertiary"
    /\ text = SP \o SP
    /\ result = NoResult

\* the type of the last relationship the first document lists for a pair
LastRelType(gd, u, v) ==
    LET hits == {i \in 1..Len(gd.rels) : gd.rels[i].source = u /\ gd.rels[i].target = v}
    IN  gd.rels[CHOOSE i \in hits : \A k \in hits : k <= i].type

\* C18: at most one relationship per ordered pair. No two relationships of a
\* returned graph have the same source and target, whichever tier built it;
\* when the graph transformer lists a pair more than once, the returned
\* relationship carries the type listed last.
C18_OneEdgePerPair ==
    outcome = "returned" =>
        LET R == result.relationships IN
        /\ \A i, j \in 1..Len(R) :
              (R[i].source = R[j].source /\ R[i].target = R[j].target) => i = j
        /\ producer = "primary" =>
              \A i \in 1..Len(R) :
                  R[i].type = LastRelType(graph_documents, R[i].source, R[i].target)

\* the primary tier returned a graph for a document that lists one pair
\* twice, with two types
C18_Witness ==
    /\ pc = "done"
    /\ producer = "primary"
    /\ \E i, j \in 1..Len(graph_documents.rels) :
          /\ i < j
          /\ graph_documents.rels[i].source = graph_documents.rels[j].source
          /\ graph_documents.rels[i].target = graph_documents.rels[j].target
          /\ graph_documents.rels[i].type # graph_documents.rels[j].type

\* C19: the public shape. Every node of a returned graph has exactly the
\* keys id, type and gender and every relationship exactly the keys source,
\* target and type; the properties the primary tier stores on the nodes of
\* its working graph are not in the returned graph.
C19_CanonicalShape ==
    outcome = "returned" =>
        /\ \A i \in 1..Len(result.nodes) :
              DOMAIN result.nodes[i] = {"id", "type", "gender"}
        /\ \A i \in 1..Len(result.relationships) :
              DOMAIN result.relationships[i] = {"source", "target", "type"}

\* the primary tier returned nodes and relationships from a working graph
\* whose nodes carry a properties bag
C19_Witness ==
    /\ pc = "done"
    /\ producer = "primary"
    /\ result.nodes # <<>>
    /\ result.relationships # <<>>
    /\ \A i \in 1..Len(G.nodes) : "properties" \in G.nodes[i].has

\* C20: translate_text issues exactly one completion request per call, and a
\* request that raises reaches the caller of translate_text as an exception:
\* it is neither answered with a default nor issued again.
C20_TranslationNotRetried ==
    /\ translation = NoTranslation \/ translation.requests = 1
    /\ translation.completion = "raises" => translation.outcome = "raised"
    /\ translation.outcome = "returned" => translation.completion = "content"

\* the graph was returned, by the last tier, and the one completion request
\* of translate_text raised
C20_Witness ==
    /\ pc = "done"
    /\ producer = "tertiary"
    /\ translation.completion = "raises"
    /\ translation.requests = 1
    /\ translation.outcome = "raised"

\* the two-node graph Kiran (male), Sita (female), Kiran KNOWS Sita
KiranKnowsSita ==
    [nodes |-> <<GNode(Kiran, TPerson, Male), GNode(Sita, TPerson, Female)>>,
     relationships |-> <<GRel(Kiran, KNOWS, Sita)>>]

\* the i-th and the next rendering are separated by ', ' and nothing else
InListOrder(parts, content) ==
    /\ \A i \in 1..Len(parts) : IsSubstr(parts[i], content)
    /\ \A i \in 1..(Len(parts) - 1) :
          IsSubstr(parts[i] \o <<",", " ">> \o parts[i + 1], content)

\* C21: the prompt. Its content holds the nodes of the graph in list order,
\* each as '<id> (Type: <type>, Gender: <gender>)', and the relationships in
\* list order, each as '<source> --[<type>]--> <target>', both joined by
\* ', ', together with the text and the target language; a dictionary
\* without 'nodes' or 'relationships' is rendered as one with an empty list
\* there, and no call raises.
C21_PromptSerialization ==
    prompt # NoPrompt =>
        LET nodes == IF "nodes" \in DOMAIN knowledge_graph
                     THEN knowledge_graph.nodes ELSE <<>>
            rels  == IF "relationships" \in DOMAIN knowledge_graph
                     THEN knowledge_graph.relationships ELSE <<>>
            N     == [i \in 1..Len(nodes) |->
                        nodes[i].id \o <<" ", "(", "T", "y", "p", "e", ":", " ">>
                        \o nodes[i].type
                        \o <<",", " ", "G", "e", "n", "d", "e", "r", ":", " ">>
                        \o nodes[i].gender \o <<")">>]
            R     == [i \in 1..Len(rels) |->
                        rels[i].source \o <<" ", "-", "-", "[">> \o rels[i].type
                        \o <<"]", "-", "-", ">", " ">> \o rels[i].target]
        IN  /\ ~prompt.raised
            /\ prompt.role = "user"
            /\ InListOrder(N, prompt.content)
            /\ InListOrder(R, prompt.content)
            /\ IsSubstr(sample_text, prompt.content)
            /\ IsSubstr(target_lang, prompt.content)
            /\ nodes = <<>> =>
                  IsSubstr(<<"N", "o", "d", "e", "s", ":", " ", ".">>, prompt.content)
            /\ rels = <<>> =>
                  IsSubstr(<<"s", "h", "i", "p", "s", ":", " ", ".">>, prompt.content)
            /\ knowledge_graph = KiranKnowsSita =>
                  IsSubstr(StructureNodes \o Kiran \o TypeColon \o TPerson \o GenderColon
                           \o Male \o <<")", ",", " ">> \o Sita \o TypeColon \o TPerson
                           \o GenderColon \o Female \o <<")">> \o DotRelationships
                           \o Kiran \o ArrowOpen \o KNOWS \o ArrowClose \o Sita
                           \o <<".", " ">>,
                           prompt.content)

\* the prompt of a dictionary that has relationships and no 'nodes' key
C21_Witness ==
    /\ prompt # NoPrompt
    /\ DOMAIN knowledge_graph = {"relationships"}
    /\ knowledge_graph.relationships # <<>>
    /\ sample_text # <<>>

\* what the graph transformer returned deviates from the expected shape
ShapeDeviation(gd) ==
    \/ gd.kind \in {"empty", "no_nodes_attr", "no_rels_attr"}
    \/ gd.kind = "doc" /\ \E i \in 1..Len(gd.nodes) : ~gd.nodes[i].ok

\* C22: a shape deviation escalates. When the graph transformer returns no
\* document, or a first document without 'nodes' or without 'relationships',
\* or a node that lacks an attribute, the secondary extractor is attempted
\* and nothing the primary tier built is returned.
C22_ShapeDeviationEscalates ==
    ShapeDeviation(graph_documents) =>
        /\ pc \in {"basic", "basic_nodes", "basic_except", "done"} =>
              (Len(tiers) >= 2 /\ tiers[2].tier = "secondary")
        /\ pc = "done" => producer \in {"secondary", "tertiary"}

\* the first document had a node and no 'relationships', and the secondary
\* tier returned the graph
C22_Witness ==
    /\ pc = "done"
    /\ graph_documents.kind = "no_rels_attr"
    /\ producer = "secondary"
    /\ result.nodes # <<>>

\* C23: no relationship of a graph returned by the secondary tier has its
\* source as its target, be it a REL_<VERB> edge or a RELATED_TO edge.
C23_NoSelfLoops ==
    producer = "secondary" =>
        \A i \in 1..Len(result.relationships) :
            result.relationships[i].source # result.relationships[i].target

\* the secondary tier returned a graph with a dependency edge and a
\* RELATED_TO edge
C23_Witness ==
    /\ pc = "done"
    /\ producer = "secondary"
    /\ \E i, j \in 1..Len(result.relationships) :
          /\ result.relationships[i].type = RELATED_TO
          /\ SubSeq(result.relationships[j].type, 1, 4) = REL_

\* the working graph of the secondary tier before the density backstop
BeforeBackstop ==
    DependencyEdges([nodes |-> G.nodes, edges |-> <<>>], doc.sents, entities, 1)

\* the node has no incident edge in graph g
Isolated(g, id) ==
    \A i \in 1..Len(g.edges) : g.edges[i].source # id /\ g.edges[i].target # id

BackstopFires == Len(BeforeBackstop.edges) < Len(entities) - 1

\* C24: the density backstop adds RELATED_TO edges only to chain entities
\* that are still unconnected: every edge it adds has an endpoint without
\* any incident edge before it ran; it adds none when the dependency edges
\* are at least (entity count - 1).
C24_BackstopOnlyUnconnected ==
    producer = "secondary" =>
        \A i \in 1..Len(G.edges) :
            ~HasEdge(BeforeBackstop, G.edges[i].source, G.edges[i].target) =>
                /\ BackstopFires
                /\ G.edges[i].type = RELATED_TO
                /\ \/ Isolated(BeforeBackstop, G.edges[i].source)
                   \/ Isolated(BeforeBackstop, G.edges[i].target)

\* the graph transformer listed a relationship one of whose ends is no node
Dangling(gd) ==
    /\ gd.kind = "doc"
    /\ \A i \in 1..Len(gd.nodes) : gd.nodes[i].ok
    /\ \A i \in 1..Len(gd.rels) : gd.rels[i].ok
    /\ \E i \in 1..Len(gd.rels) :
          \/ \A j \in 1..Len(gd.nodes) : gd.nodes[j].id # gd.rels[i].source
          \/ \A j \in 1..Len(gd.nodes) : gd.nodes[j].id # gd.rels[i].target

\* C27: a dangling relationship in the primary tier. The primary graph, in
\* which the missing end is a node without type and gender, is never
\* returned: building the result raises, the primary tier counts as failed
\* and the graph returned is that of the secondary or the tertiary tier.
C27_DanglingRelationship ==
    Dangling(graph_documents) =>
        /\ producer # "primary"
        /\ pc \in {"basic", "basic_nodes", "basic_except", "done"} =>
              "primary" \in failed
        /\ pc = "done" =>
              /\ outcome = "returned"
              /\ producer \in {"secondary", "tertiary"}
              /\ \A i \in 1..Len(result.nodes) :
                    result.nodes[i].type # NoAttr /\ result.nodes[i].gender \in Genders

\* the primary tier failed on a dangling relationship and the tertiary tier
\* returned the graph
C27_Witness ==
    /\ pc = "done"
    /\ Dangling(graph_documents)
    /\ failed = {"primary", "secondary"}
    /\ producer = "tertiary"

\* the positions <<k, i>> of the mentions the cluster loops visit before the
\* first empty mention of a cluster that decides a gender
Deciding(cl) == {k \in 1..Len(cl) : ClusterGender(cl[k]) # <<>>}

Failing(cl) == {p \in Deciding(cl) \X (1..3) : p[2] <= Len(cl[p[1]]) /\ cl[p[1]][p[2]] = <<>>}

Earlier(p, q) == p[1] < q[1] \/ (p[1] = q[1] /\ p[2] < q[2])

Visited(cl) ==
    {p \in Deciding(cl) \X (1..3) :
        /\ p[2] <= Len(cl[p[1]])
        /\ \A q \in Failing(cl) : Earlier(p, q)}

\* C28: a failure in the middle of identify_genders_coref keeps what was
\* assigned. When a cluster that decides a gender holds an empty mention,
\* the function still returns, and its map holds exactly the mentions
\* assigned before that mention was reached; it is empty only when nothing
\* was assigned before the failure.
C28_PartialGenderMap ==
    (corefEngine.kind = "clusters" /\ Failing(corefEngine.clusters) # {}) =>
        LET cl == corefEngine.clusters
            assigned == {cl[p[1]][p[2]] : p \in {q \in Visited(cl) :
                                                    Qualifies(cl[q[1]][q[2]])}}
        IN  /\ bound
            /\ DOMAIN corefMap = assigned
            /\ gender_map = corefMap
            /\ corefMap = EmptyMap <=> assigned = {}

\* the second cluster held an empty mention and the gender of the first
\* cluster is in the map the request goes on with
C28_Witness ==
    /\ pc = "convert"
    /\ corefEngine.kind = "clusters"
    /\ Len(corefEngine.clusters) = 2
    /\ Failing(corefEngine.clusters) # {}
    /\ corefMap # EmptyMap

\* C29: the density backstop when it fires. Every consecutive pair of the
\* entity list then has an edge, so that the entities are connected; an edge
\* a pair had before keeps its REL_<VERB> type. When it does not fire the
\* graph is the one the dependency edges gave, in which an entity may have
\* no edge at all.
C29_BackstopEffect ==
    producer = "secondary" =>
        /\ BackstopFires =>
              \A i \in 1..(Len(entities) - 1) : HasEdge(G, entities[i], entities[i + 1])
        /\ \A i \in 1..Len(BeforeBackstop.edges) :
              \E j \in 1..Len(G.edges) : G.edges[j] = BeforeBackstop.edges[i]
        /\ ~BackstopFires => G.edges = BeforeBackstop.edges

\* the backstop did not fire and the returned graph has an entity without
\* any edge
C29_Witness ==
    /\ pc = "done"
    /\ producer = "secondary"
    /\ ~BackstopFires
    /\ result.relationships # <<>>
    /\ \E i \in 1..Len(result.nodes) : Isolated(G, result.nodes[i].id)

\* a step builds a model only where the code loads it, and never a second one
HandlesBuiltOnce ==
    /\ coref_model = "loaded" =>
          (coref_model' = "loaded" /\ loads'.coref_model = loads.coref_model)
    /\ nlp = "loaded" => (nlp' = "loaded" /\ loads'.nlp = loads.nlp)
    /\ (coref_model' # coref_model \/ loads'.coref_model # loads.coref_model) =>
          pc = "coref"
    /\ (nlp' # nlp \/ loads'.nlp # loads.nlp) => pc = "basic"

\* C25: the engine handles are loaded lazily and once. FCoref() builds a
\* model only in the coreference step of a request and never again once one
\* was built; spacy.load builds a model only in a request that has reached
\* the secondary tier and never again once one was built; a loaded handle
\* stays loaded, and a request that the primary tier answers has not
\* attempted the secondary tier, hence loads no syntactic model.
C25_LazyLoadedOnce ==
    /\ [](/\ loads.coref_model = (IF coref_model = "loaded" THEN 1 ELSE 0)
          /\ loads.nlp = (IF nlp = "loaded" THEN 1 ELSE 0)
          /\ pc = "basic" => Attempted("secondary")
          /\ producer = "primary" => ~Attempted("secondary"))
    /\ [][HandlesBuiltOnce]_vars

\* the second request on a KnowledgeGraphGenerator was answered by the
\* secondary tier with the two models the first request had loaded
C25_Witness ==
    /\ cls = "KnowledgeGraphGenerator"
    /\ requests = 2
    /\ pc = "done"
    /\ producer = "secondary"
    /\ loads = [coref_model |-> 1, nlp |-> 1]

(* The same request on a fresh object and on one that served others. *)
Replayed == DOMAIN runs # {}

SameRun(a, b) ==
    /\ a.raised = b.raised
    /\ a.tiers = b.tiers
    /\ a.calls = b.calls
    /\ a.producer = b.producer
    /\ a.result = b.result

\* a handle is left as it was or goes from None to loaded
HandlesOnlyLoaded(before, after) ==
    /\ before.coref_model = "loaded" => after.coref_model = "loaded"
    /\ before.nlp = "loaded" => after.nlp = "loaded"

SameServices ==
    /\ ~inputs.coref_load_raises
    /\ \/ ~inputs.sp.load_raises /\ inputs.enhanced_nlp = "loaded"
       \/ inputs.sp.load_raises /\ inputs.enhanced_nlp = "None"

C30_WitnessUnavailable ==
    /\ Replayed
    /\ SameServices
    /\ inputs.sp.load_raises
    /\ runs.fresh.producer = "tertiary"
    /\ runs.enhanced.producer = "tertiary"

====
